---- MODULE Spec2Model ----
(***************************************************************************)
(* A model of ljd/ast/unwarper.py, the control-flow unwarping core of the  *)
(* LuaJIT decompiler.                                                      *)
(*                                                                         *)
(* Python objects are kept in an arena.  A block is a record of blk, named *)
(* by its position there (its id, 0 is None); a statements-list is a       *)
(* sequence of lst, named the same way.  An element of a statements-list   *)
(* is a reference [k |-> "Block", id |-> b] or, after final_pass, a        *)
(* statement record.  Every node record has a field k holding the name of  *)
(* its class in ljd.ast.nodes.                                             *)
(*                                                                         *)
(* A function of the source is an operator over the machine state          *)
(*   s == [blk, lst, err, log]                                             *)
(* that returns the new state, or a record [s |-> state, v |-> value].     *)
(* err is "ok" or the name of the exception that ended the call; state     *)
(* changes made before the exception are kept, as Python keeps them.       *)
(***************************************************************************)
EXTENDS Integers, Sequences, FiniteSets, TLC

VARIABLES
    blk,        \* the blocks ever created: index, contents, warp, warpins_count
    lst,        \* the statements-lists ever created; lst[1] is the root's
    err,        \* "ok", or the exception that ended the pass
    log,        \* history: the calls of _unwarp_breaks and _unwarp_ifs made so far
    pc,         \* the next pass of the driver
    round,      \* 1 during the first primary_pass, 2 during a repeated one
    parts,      \* expression assembly: the flat sequence given
    tree        \* expression assembly: the result

vars == <<blk, lst, err, log, pc, round, parts, tree>>

----------------------------------------------------------------------------
(* Python sequences: 0-based indexing, slices.                              *)

Min(a, b) == IF a < b THEN a ELSE b
Max(a, b) == IF a > b THEN a ELSE b

At(seq, i) == seq[i + 1]
Last(seq) == seq[Len(seq)]

\* a slice bound: a negative one counts from the end, all are clamped
Bound(seq, a) == IF a < 0 THEN Max(a + Len(seq), 0) ELSE Min(a, Len(seq))
\* seq[a:b]
Slice(seq, a, b) ==
    IF Bound(seq, b) <= Bound(seq, a) THEN <<>>
    ELSE SubSeq(seq, Bound(seq, a) + 1, Bound(seq, b))
\* seq[a:]
From(seq, a) == Slice(seq, a, Len(seq))
\* seq[:b]
Upto(seq, b) == Slice(seq, 0, b)

Range(seq) == {seq[i] : i \in 1..Len(seq)}

\* seq.index(x), or -1 where Python raises ValueError
IndexOf(seq, x) ==
    IF \E i \in 1..Len(seq) : seq[i] = x
    THEN (CHOOSE i \in 1..Len(seq) : seq[i] = x /\ \A j \in 1..(i - 1) : seq[j] # x) - 1
    ELSE -1

RECURSIVE Reverse(_)
Reverse(seq) == IF seq = <<>> THEN <<>> ELSE Reverse(Tail(seq)) \o <<Head(seq)>>

----------------------------------------------------------------------------
(* Nodes.                                                                  *)

None == 0

Ok(s) == s.err = "ok"
Raise(s, e) == IF Ok(s) THEN [s EXCEPT !.err = e] ELSE s
Ret(s, v) == [s |-> s, v |-> v]

\* LET v == value IN In(v): the value of a call, named for what follows it
Bind(value, In(_)) == In(value)

UnconditionalWarp(type, target) ==
    [k |-> "UnconditionalWarp", type |-> type, target |-> target]
ConditionalWarp(condition, true_target, false_target) ==
    [k |-> "ConditionalWarp", condition |-> condition,
     true_target |-> true_target, false_target |-> false_target]
EndWarp == [k |-> "EndWarp"]
NumericLoopWarp(body, way_out) ==
    [k |-> "NumericLoopWarp", index |-> "i", controls |-> "c",
     body |-> body, way_out |-> way_out]
IteratorWarp(body, way_out) ==
    [k |-> "IteratorWarp", variables |-> "v", controls |-> "c",
     body |-> body, way_out |-> way_out]

Block(index, contents, warp, warpins_count) ==
    [index |-> index, contents |-> contents, warp |-> warp,
     warpins_count |-> warpins_count]

BlockRef(b) == [k |-> "Block", id |-> b]
BlockRefs(ids) == [i \in 1..Len(ids) |-> BlockRef(ids[i])]
BlockIds(contents) == [i \in 1..Len(contents) |-> contents[i].id]

Break == [k |-> "Break"]

LoopKinds == {"While", "RepeatUntil", "NumericFor", "IteratorFor"}

\* nodes.Block() / a new object: the block is appended to the arena
NewBlock(s, b) == Ret([s EXCEPT !.blk = Append(@, b)], Len(s.blk) + 1)
\* a new StatementsList holding the blocks ids
NewList(s, ids) == Ret([s EXCEPT !.lst = Append(@, BlockRefs(ids))], Len(s.lst) + 1)

_is_flow(warp) == warp.k = "UnconditionalWarp" /\ warp.type = "T_FLOW"
_is_jump(warp) == warp.k = "UnconditionalWarp" /\ warp.type = "T_JUMP"

_set_flow_to(s, block, target) ==
    [s EXCEPT !.blk[block].warp = UnconditionalWarp("T_FLOW", target)]

----------------------------------------------------------------------------
(* Traversal: every non-empty statements-list under the root, pre-order.   *)

RECURSIVE traverse_list(_, _), traverse_seq(_, _), traverse_node(_, _)
traverse_list(s, l) ==
    (IF Len(s.lst[l]) > 0 THEN <<l>> ELSE <<>>) \o traverse_seq(s, s.lst[l])
traverse_seq(s, nodes) ==
    IF nodes = <<>> THEN <<>>
    ELSE traverse_node(s, Head(nodes)) \o traverse_seq(s, Tail(nodes))
traverse_node(s, n) ==
    CASE n.k = "Block" -> traverse_seq(s, s.blk[n.id].contents)
      [] n.k = "If" -> traverse_list(s, n.then_block) \o traverse_list(s, n.else_block)
      [] n.k \in LoopKinds -> traverse_list(s, n.statements)
      [] OTHER -> <<>>

Root == 1

_gather_statements_lists(s) == traverse_list(s, Root)

----------------------------------------------------------------------------
(* Expression and statement nodes.                                         *)

\* BinaryOperator types; the tighter-binding logical operator compares less
T_LOGICAL_AND == 1
T_LOGICAL_OR == 2
T_LESS_THEN == 20
T_GREATER_THEN == 21
T_LESS_OR_EQUAL == 22
T_GREATER_OR_EQUAL == 23
T_NOT_EQUAL == 24
T_EQUAL == 25
T_ADD == 40

\* _NEGATION_MAP mirroring a comparison (a < b into a > b) where it is to negate
_NEGATION_MAP_mirrored(type) ==
    CASE type = T_LESS_THEN -> T_GREATER_THEN
      [] type = T_GREATER_THEN -> T_LESS_THEN
      [] type = T_LESS_OR_EQUAL -> T_GREATER_OR_EQUAL
      [] type = T_GREATER_OR_EQUAL -> T_LESS_OR_EQUAL
      [] type = T_NOT_EQUAL -> T_EQUAL
      [] type = T_EQUAL -> T_NOT_EQUAL
      [] OTHER -> -1

Identifier(type, slot) == [k |-> "Identifier", type |-> type, slot |-> slot]
BinaryOperator(type, left, right) ==
    [k |-> "BinaryOperator", type |-> type, left |-> left, right |-> right]
UnaryOperator(type, operand) ==
    [k |-> "UnaryOperator", type |-> type, operand |-> operand]
Primitive(type) == [k |-> "Primitive", type |-> type]
Constant(value) == [k |-> "Constant", value |-> value]
Assignment(dsts, srcs) ==
    [k |-> "Assignment", destinations |-> dsts, expressions |-> srcs]
FunctionCall(name) == [k |-> "FunctionCall", name |-> name]

\* Python's None where an expression is expected
NoExpr == [k |-> "None"]

\* a value, or the exception raised instead of it
Val(v) == [err |-> "ok", v |-> v]
Exc(e) == [err |-> e, v |-> NoExpr]

\* an element of a flat expression: an operator tag, or a nested list
Operator(type) == [k |-> "operator", type |-> type]
PartList(items) == [k |-> "list", items |-> items]

HasTarget(warp) == warp.k \in {"ConditionalWarp", "UnconditionalWarp"}

\* callers raise AssertionError unless HasTarget(warp)
_get_target(warp) ==
    IF warp.k = "ConditionalWarp" THEN warp.false_target ELSE warp.target

_set_target(warp, target) ==
    IF warp.k = "ConditionalWarp"
    THEN [warp EXCEPT !.false_target = target]
    ELSE [warp EXCEPT !.target = target]

_NEGATION_MAP(type) ==
    CASE type = T_LESS_THEN -> T_GREATER_OR_EQUAL
      [] type = T_GREATER_THEN -> T_LESS_OR_EQUAL
      [] type = T_LESS_OR_EQUAL -> T_GREATER_THEN
      [] type = T_GREATER_OR_EQUAL -> T_LESS_THEN
      [] type = T_NOT_EQUAL -> T_EQUAL
      [] type = T_EQUAL -> T_NOT_EQUAL
      [] OTHER -> -1

_invert(expression) ==
    IF expression.k = "UnaryOperator" THEN Val(expression.operand)
    ELSE IF expression.k # "BinaryOperator"
    THEN Val(UnaryOperator("T_NOT", expression))
    ELSE IF _NEGATION_MAP(expression.type) = -1 THEN Exc("AssertionError")
    ELSE Val([expression EXCEPT !.type = _NEGATION_MAP(expression.type)])

_is_inverted(warp, true, end) ==
    IF warp.k = "UnconditionalWarp" THEN Val(warp.target = end)
    ELSE IF warp.k # "ConditionalWarp" THEN Exc("AttributeError")
    ELSE IF warp.false_target = true THEN Val(TRUE)
    ELSE IF warp.false_target = end
    THEN IF warp.condition.k = "BinaryOperator" THEN Exc("AssertionError")
         ELSE IF warp.condition.k # "UnaryOperator" THEN Val(FALSE)
         ELSE Val(warp.condition.type = "T_NOT")
    ELSE Val(FALSE)

_get_last_assignment_source(s, block) ==
    LET contents == s.blk[block].contents IN
    IF Len(contents) = 0 THEN Val(NoExpr)
    ELSE IF Last(contents).k # "Assignment" THEN Exc("AssertionError")
    ELSE IF Len(Last(contents).expressions) = 0 THEN Exc("IndexError")
    ELSE Val(Last(contents).expressions[1])

\* block.contents.pop() happens before the assertion
_get_and_remove_last_assignment_source(s, block) ==
    LET contents == s.blk[block].contents
        popped == [s EXCEPT !.blk[block].contents = Upto(contents, Len(contents) - 1)]
    IN
    IF Len(contents) = 0 THEN Ret(Raise(s, "IndexError"), NoExpr)
    ELSE IF Last(contents).k # "Assignment"
    THEN Ret(Raise(popped, "AssertionError"), NoExpr)
    ELSE IF Len(Last(contents).expressions) = 0
    THEN Ret(Raise(popped, "IndexError"), NoExpr)
    ELSE Ret(popped, Last(contents).expressions[1])

_get_operator(s, block, true, end) ==
    LET warp == s.blk[block].warp
        src == _get_last_assignment_source(s, block)
        inv == _is_inverted(warp, true, end)
    IN
    IF warp.k = "UnconditionalWarp"
    THEN IF src.err # "ok" THEN src
         ELSE IF src.v.k \notin {"Constant", "BinaryOperator", "Primitive", "None"}
         THEN Exc("AssertionError")
         ELSE LET is_true ==
                    CASE src.v.k = "Constant" -> src.v.value # 0
                      [] src.v.k = "BinaryOperator" -> TRUE
                      [] src.v.k = "Primitive" -> src.v.type = "T_TRUE"
                      [] OTHER -> warp.target = true
              IN Val(IF is_true THEN T_LOGICAL_OR ELSE T_LOGICAL_AND)
    ELSE IF inv.err # "ok" THEN inv
    ELSE Val(IF inv.v THEN T_LOGICAL_OR ELSE T_LOGICAL_AND)

\* (true, false, body) of _get_terminators, or the exception
_get_terminators(s, body) ==
    LET none == [err |-> "ok", true |-> None, false |-> None, body |-> body]
        last == s.blk[Last(body)].contents
        prev == s.blk[At(body, Len(body) - 2)].contents
    IN
    IF Len(body) < 2 THEN none
    ELSE IF Len(last) # 1 THEN none
    ELSE IF last[1].k # "Assignment" THEN none
    ELSE IF Len(last[1].expressions) = 0 THEN [none EXCEPT !.err = "IndexError"]
    ELSE IF last[1].expressions[1] # Primitive("T_TRUE") THEN none
    ELSE IF Len(prev) # 1 THEN none
    ELSE IF prev[1].k \in {"NumericFor", "IteratorFor"} THEN none
    ELSE IF prev[1].k # "Assignment" THEN [none EXCEPT !.err = "AttributeError"]
    ELSE IF Len(prev[1].expressions) = 0 THEN [none EXCEPT !.err = "IndexError"]
    ELSE IF prev[1].expressions[1] # Primitive("T_FALSE") THEN none
    ELSE [err |-> "ok", true |-> Last(body), false |-> At(body, Len(body) - 2),
          body |-> Upto(body, Len(body) - 2)]

----------------------------------------------------------------------------
(* The expression compiler.                                                *)

\* the inner while of _unwarp_expression: the rightmost of the consecutive
\* terminal blocks with the same target and the same inversion
RECURSIVE rightmost_terminal(_, _, _, _, _, _)
rightmost_terminal(s, body, i, target, true, end) ==
    LET warp == s.blk[At(body, i)].warp
        next_warp == s.blk[At(body, i + 1)].warp
        next_inverted == _is_inverted(next_warp, true, end)
        this_inverted == _is_inverted(warp, true, end)
    IN
    IF ~(i < Len(body) - 2) THEN Val(i)
    ELSE IF ~HasTarget(next_warp) THEN Exc("AssertionError")
    ELSE IF _get_target(next_warp) # target THEN Val(i)
    ELSE IF next_inverted.err # "ok" THEN next_inverted
    ELSE IF this_inverted.err # "ok" THEN this_inverted
    ELSE IF next_inverted.v # this_inverted.v THEN Val(i)
    ELSE rightmost_terminal(s, body, i + 1, target, true, end)

\* the tail operand of _unwarp_expression
last_operand(s, body, true, end) ==
    LET last == Last(body)
        warp == s.blk[last].warp
        inv == _is_inverted(warp, true, end)
        src == _get_last_assignment_source(s, last)
    IN
    IF Len(body) = 0 THEN Exc("IndexError")
    ELSE IF warp.k = "ConditionalWarp"
    THEN IF inv.err # "ok" THEN inv
         ELSE IF inv.v THEN _invert(warp.condition)
         ELSE Val(warp.condition)
    ELSE IF warp.k # "UnconditionalWarp" THEN Exc("AssertionError")
    ELSE IF src.err # "ok" THEN src
    ELSE IF src.v = NoExpr
    THEN Val(Primitive(IF warp.target = true THEN "T_TRUE" ELSE "T_FALSE"))
    ELSE src

RECURSIVE _unwarp_expression(_, _, _, _, _)
RECURSIVE unwarp_expression_loop(_, _, _, _, _, _, _, _)
RECURSIVE _compile_subexpression(_, _, _, _, _, _, _)

_compile_subexpression(s, subexpression, operator, block, next_block, true, end) ==
    LET warp == s.blk[block].warp
        inv == _is_inverted(warp, true, end)
        inverted == _invert(warp.condition)
        or == operator = T_LOGICAL_OR
        subtrue == IF warp.k = "UnconditionalWarp"
                   THEN (IF or THEN warp.target ELSE next_block)
                   ELSE (IF or THEN warp.false_target ELSE warp.true_target)
        subfalse == IF warp.k = "UnconditionalWarp"
                    THEN (IF or THEN next_block ELSE warp.target)
                    ELSE (IF or THEN warp.true_target ELSE warp.false_target)
        sub == _unwarp_expression(s, subexpression, None, subtrue, subfalse)
    IN
    IF Len(subexpression) = 1
    THEN IF warp.k = "UnconditionalWarp"
         THEN _get_and_remove_last_assignment_source(s, block)
         ELSE IF inv.err # "ok" THEN Ret(Raise(s, inv.err), NoExpr)
         ELSE IF inv.v
         THEN (IF inverted.err # "ok" THEN Ret(Raise(s, inverted.err), NoExpr)
               ELSE Ret(s, inverted.v))
         ELSE Ret(s, warp.condition)
    ELSE Ret(sub.s, PartList(sub.v))

\* the while loop of _unwarp_expression, from position i
unwarp_expression_loop(s, body, end, true, false, terminator_index, i, acc) ==
    LET block == At(body, i)
        warp == s.blk[block].warp
        target == _get_target(warp)
    IN
    IF ~(i < Len(body) - 1) THEN Ret(s, acc.parts)
    ELSE IF ~HasTarget(warp) THEN Ret(Raise(s, "AssertionError"), acc.parts)
    ELSE IF target = None THEN Ret(Raise(s, "AttributeError"), acc.parts)
    ELSE IF s.blk[target].index < terminator_index
    THEN unwarp_expression_loop(s, body, end, true, false, terminator_index, i + 1, acc)
    ELSE IF target \notin {true, false, end}
    THEN Ret(Raise(s, "AssertionError"), acc.parts)
    ELSE Bind(rightmost_terminal(s, body, i, target, true, end), LAMBDA r :
    LET j == r.v
        next_block == At(body, j + 1)
        subexpression == Slice(body, acc.subexpression_start, j + 1)
    IN
    IF r.err # "ok" THEN Ret(Raise(s, r.err), acc.parts)
    ELSE Bind(_get_operator(s, At(body, j), true, end), LAMBDA operator :
    IF operator.err # "ok" THEN Ret(Raise(s, operator.err), acc.parts)
    ELSE Bind(_compile_subexpression(s, subexpression, operator.v, At(body, j),
                                     next_block, true, end), LAMBDA sub :
    IF ~Ok(sub.s) THEN Ret(sub.s, acc.parts)
    ELSE unwarp_expression_loop(sub.s, body, end, true, false, terminator_index, j + 1,
            [subexpression_start |-> j + 1,
             parts |-> acc.parts \o <<sub.v, Operator(operator.v)>>]))))

_unwarp_expression(s, body, end, true, false) ==
    LET terminator_index ==
            IF true # None
            THEN (IF end # None
                  THEN Min(s.blk[end].index, Min(s.blk[true].index, s.blk[false].index))
                  ELSE Min(s.blk[true].index, s.blk[false].index))
            ELSE s.blk[end].index
    IN
    IF true # None /\ false = None THEN Ret(Raise(s, "AttributeError"), <<>>)
    ELSE IF true = None /\ end = None THEN Ret(Raise(s, "AssertionError"), <<>>)
    ELSE Bind(unwarp_expression_loop(s, body, end, true, false, terminator_index, 0,
                                     [subexpression_start |-> 0, parts |-> <<>>]),
              LAMBDA r :
    IF ~Ok(r.s) THEN r
    ELSE Bind(last_operand(r.s, body, true, end), LAMBDA last :
    IF last.err # "ok" THEN Ret(Raise(r.s, last.err), r.v)
    ELSE Ret(r.s, r.v \o <<last.v>>)))

\* Split the topmost expression into smaller subexpressions at each
\* operator change
RECURSIVE explicit_loop(_, _, _)
explicit_loop(parts_, i, acc) ==
    LET component == At(parts_, i)
        operator == At(parts_, i + 1)
    IN
    IF ~(i < Len(parts_) - 1) THEN acc
    ELSE IF operator.type < acc.last_operator
    THEN explicit_loop(parts_, i + 2,
            [acc EXCEPT !.subexpression_start = i, !.last_operator = operator.type])
    ELSE IF acc.subexpression_start > 0
    THEN IF operator.type > acc.last_operator
            /\ (i - acc.subexpression_start) % 2 # 0
         THEN explicit_loop(parts_, i + 2,
                [acc EXCEPT !.patched = @ \o <<PartList(Slice(parts_, acc.subexpression_start, i))>>,
                            !.subexpression_start = -1])
         ELSE explicit_loop(parts_, i + 2, acc)
    ELSE explicit_loop(parts_, i + 2,
            [acc EXCEPT !.patched = @ \o <<component, operator>>])

\* _make_explicit_subexpressions forgetting the sub-expression left open
_make_explicit_subexpressions_without_open(parts_) ==
    LET acc == explicit_loop(parts_, 0,
                    [patched |-> <<>>, last_operator |-> At(parts_, 1).type,
                     subexpression_start |-> -1])
    IN acc.patched \o <<Last(parts_)>>

_make_explicit_subexpressions(parts_) ==
    LET acc == explicit_loop(parts_, 0,
                    [patched |-> <<>>, last_operator |-> At(parts_, 1).type,
                     subexpression_start |-> -1])
    IN
    IF acc.subexpression_start >= 0
    THEN acc.patched \o <<PartList(From(parts_, acc.subexpression_start))>>
    ELSE acc.patched \o <<Last(parts_)>>

\* a value, or the IndexError of a list shorter than three
RECURSIVE _assemble_expression(_)
RECURSIVE assemble_loop(_, _, _)
assemble_loop(items, i, node) ==
    LET left == _assemble_expression(At(items, i - 1)) IN
    IF ~(i > 0) THEN Val(node)
    ELSE IF left.err # "ok" THEN left
    ELSE assemble_loop(items, i - 2, BinaryOperator(At(items, i).type, left.v, node))

\* the fold of _assemble_expression_from_left, from the operator at position i
RECURSIVE assemble_from_left(_, _, _)
assemble_from_left(items, i, node) ==
    LET right == _assemble_expression(items[i + 1]) IN
    IF i > Len(items) THEN Val(node)
    ELSE IF right.err # "ok" THEN right
    ELSE assemble_from_left(items, i + 2, BinaryOperator(items[i].type, node, right.v))

\* _assemble_expression folding the operators from the left
_assemble_expression_from_left(part) ==
    LET first == _assemble_expression(part.items[1]) IN
    IF part.k # "list" THEN Val(part)
    ELSE IF Len(part.items) < 3 THEN Exc("IndexError")
    ELSE IF first.err # "ok" THEN first
    ELSE assemble_from_left(part.items, 2, first.v)

_assemble_expression(part) ==
    LET items == part.items
        n == Len(items)
        left == _assemble_expression(items[n - 2])
        right == _assemble_expression(items[n])
    IN
    IF part.k # "list" THEN Val(part)
    ELSE IF n < 3 THEN Exc("IndexError")
    ELSE IF left.err # "ok" THEN left
    ELSE IF items[n - 1].k # "operator" THEN Exc("AssertionError")
    ELSE IF right.err # "ok" THEN right
    ELSE assemble_loop(items, n - 4, BinaryOperator(items[n - 1].type, left.v, right.v))

_compile_expression(s, body, end, true, false) ==
    Bind(_unwarp_expression(s, body, end, true, false), LAMBDA r :
    IF ~Ok(r.s) THEN Ret(r.s, NoExpr)
    ELSE IF Len(r.v) < 3
    THEN (IF Len(r.v) # 1 THEN Ret(Raise(r.s, "AssertionError"), NoExpr)
          ELSE Ret(r.s, r.v[1]))
    ELSE Bind(_make_explicit_subexpressions(r.v), LAMBDA explicit_parts :
         Bind(_assemble_expression(PartList(explicit_parts)), LAMBDA node :
    IF node.err # "ok" THEN Ret(Raise(r.s, node.err), NoExpr)
    ELSE Ret(r.s, node.v))))

----------------------------------------------------------------------------
(* Loop discovery.                                                         *)

\* the inner while of the repeat-until scan: (end, last_i), or the exception
RECURSIVE find_expression_end(_, _, _, _, _, _)
find_expression_end(s, blocks, i, first, start, acc) ==
    LET block == At(blocks, i)
        warp == s.blk[block].warp
        target == _get_target(warp)
    IN
    IF ~(i < Len(blocks)) THEN acc
    ELSE IF block # first /\ Len(s.blk[block].contents) # 0 THEN acc
    ELSE IF warp.k = "EndWarp" THEN acc
    ELSE IF ~HasTarget(warp) THEN [acc EXCEPT !.err = "AssertionError"]
    ELSE IF target = None THEN [acc EXCEPT !.err = "AttributeError"]
    ELSE IF s.blk[target].index < s.blk[block].index
    THEN IF target = start
         THEN find_expression_end(s, blocks, i + 1, first, start,
                                  [acc EXCEPT !.end = block, !.last_i = i])
         ELSE acc
    ELSE find_expression_end(s, blocks, i + 1, first, start, acc)

\* the while loop of _find_all_loops, from position i
RECURSIVE find_loops_from(_, _, _, _, _)
find_loops_from(s, blocks, repeat_until, i, loops) ==
    LET block == At(blocks, i)
        warp == s.blk[block].warp
        start == warp.false_target
        found == find_expression_end(s, blocks, i, block, start,
                                     [err |-> "ok", end |-> block, last_i |-> i])
        end_index == IndexOf(blocks, found.end)
    IN
    IF ~(i < Len(blocks)) THEN Ret(s, loops)
    ELSE IF warp.k = "UnconditionalWarp"
    THEN IF warp.type = "T_FLOW"
         THEN find_loops_from(s, blocks, repeat_until, i + 1, loops)
         ELSE IF warp.target = None THEN Ret(Raise(s, "AttributeError"), loops)
         ELSE IF s.blk[warp.target].index <= s.blk[block].index
         THEN IF repeat_until THEN Ret(Raise(s, "AssertionError"), loops)
              ELSE IF ~(i < Len(blocks) - 1) THEN Ret(Raise(s, "AssertionError"), loops)
              ELSE find_loops_from(s, blocks, repeat_until, i + 1,
                        Append(loops, <<warp.target, At(blocks, i + 1)>>))
         ELSE find_loops_from(s, blocks, repeat_until, i + 1, loops)
    ELSE IF repeat_until /\ warp.k = "ConditionalWarp"
    THEN IF start = None THEN Ret(Raise(s, "AttributeError"), loops)
         ELSE IF s.blk[start].index > s.blk[block].index
         THEN find_loops_from(s, blocks, repeat_until, i + 1, loops)
         ELSE IF found.err # "ok" THEN Ret(Raise(s, found.err), loops)
         ELSE IF ~(end_index + 1 < Len(blocks)) THEN Ret(Raise(s, "IndexError"), loops)
         ELSE find_loops_from(s, blocks, repeat_until, found.last_i + 1,
                   Append(loops, <<start, At(blocks, end_index + 1)>>))
    ELSE find_loops_from(s, blocks, repeat_until, i + 1, loops)

\* sorted(loops, key=lambda x: x[0].index): a stable insertion sort
RECURSIVE insert_by_index(_, _, _)
insert_by_index(s, sorted, loop) ==
    IF sorted = <<>> THEN <<loop>>
    ELSE IF s.blk[loop[1]].index < s.blk[Head(sorted)[1]].index
    THEN <<loop>> \o sorted
    ELSE <<Head(sorted)>> \o insert_by_index(s, Tail(sorted), loop)

RECURSIVE sorted_by_index(_, _)
sorted_by_index(s, loops) ==
    IF loops = <<>> THEN <<>>
    ELSE insert_by_index(s, sorted_by_index(s, Upto(loops, Len(loops) - 1)), Last(loops))

_find_all_loops(s, blocks, repeat_until) ==
    Bind(find_loops_from(s, blocks, repeat_until, 0, <<>>), LAMBDA r :
    IF ~Ok(r.s) THEN r ELSE Ret(r.s, Reverse(sorted_by_index(s, r.v))))

----------------------------------------------------------------------------
(* Loop reduction.                                                         *)

NoWarp == [k |-> "None"]

_create_next_block(s, original) ==
    NewBlock(s, Block(s.blk[original].index + 1, <<>>, NoWarp,
                      s.blk[original].warpins_count))

RECURSIVE _replace_targets(_, _, _, _)
_replace_targets(s, blocks, original, replacement) ==
    LET block == Head(blocks)
        warp == s.blk[block].warp
        swap(t) == IF t = original THEN replacement ELSE t
        new_warp ==
            CASE warp.k = "UnconditionalWarp" -> [warp EXCEPT !.target = swap(@)]
              [] warp.k = "ConditionalWarp" ->
                    [warp EXCEPT !.true_target = swap(@), !.false_target = swap(@)]
              [] warp.k = "EndWarp" -> warp
              [] OTHER -> [warp EXCEPT !.way_out = swap(@), !.body = swap(@)]
    IN
    IF blocks = <<>> THEN s
    ELSE IF warp.k = "None" THEN Raise(s, "AttributeError")
    ELSE _replace_targets([s EXCEPT !.blk[block].warp = new_warp], Tail(blocks),
                          original, replacement)

\* the for loop of _fix_nested_ifs over blocks[:-1]
RECURSIVE retarget_to_last(_, _, _, _)
retarget_to_last(s, blocks, start, last) ==
    LET block == Head(blocks)
        warp == s.blk[block].warp
    IN
    IF blocks = <<>> THEN s
    ELSE IF ~HasTarget(warp) THEN Raise(s, "AssertionError")
    ELSE IF _get_target(warp) = start
    THEN retarget_to_last([s EXCEPT !.blk[block].warp = _set_target(warp, last)],
                          Tail(blocks), start, last)
    ELSE retarget_to_last(s, Tail(blocks), start, last)

\* returns the state and blocks with the new last block appended
_fix_nested_ifs(s, blocks, start) ==
    LET c == _create_next_block(s, Last(blocks))
        last == c.v
        s1 == IF s.blk[Last(blocks)].warp.k = "ConditionalWarp"
              THEN [c.s EXCEPT !.blk[Last(blocks)].warp.false_target = last]
              ELSE _set_flow_to(c.s, Last(blocks), last)
        s2 == [s1 EXCEPT !.blk[last].warp = EndWarp]
    IN
    IF Len(blocks) = 0 THEN Ret(Raise(s, "IndexError"), blocks)
    ELSE Ret(retarget_to_last(s2, blocks, start, last), Append(blocks, last))

RECURSIVE _fix_expression(_, _, _, _)
_fix_expression(s, blocks, start, end) ==
    LET block == Head(blocks)
        warp == s.blk[block].warp
        target == _get_target(warp)
    IN
    IF blocks = <<>> THEN s
    ELSE IF Len(s.blk[block].contents) # 0 THEN s
    ELSE IF ~HasTarget(warp) THEN Raise(s, "AssertionError")
    ELSE IF target = None THEN Raise(s, "AttributeError")
    ELSE IF s.blk[target].index < s.blk[start].index
    THEN _fix_expression([s EXCEPT !.blk[block].warp = _set_target(warp, end)],
                         Tail(blocks), start, end)
    ELSE _fix_expression(s, Tail(blocks), start, end)

\* for i, block in enumerate(body): the i left by the loop, or the exception
RECURSIVE condition_end(_, _, _)
condition_end(s, body, i) ==
    IF Len(s.blk[At(body, i)].contents) # 0 THEN Exc("AssertionError")
    ELSE IF _is_flow(s.blk[At(body, i)].warp) THEN Val(i)
    ELSE IF i + 1 = Len(body) THEN Val(i)
    ELSE condition_end(s, body, i + 1)

\* the backward while loop of the repeat-until case: the i it leaves
RECURSIVE until_start(_, _, _)
until_start(s, body, i) ==
    IF ~(i >= 0) THEN i
    ELSE IF _is_flow(s.blk[At(body, i)].warp) THEN i + 1
    ELSE IF Len(s.blk[At(body, i)].contents) # 0 THEN i
    ELSE until_start(s, body, i - 1)

\* loop.statements.contents = body: the new node's statements-list is a new list
for_loop(s, kind, start, last, body) ==
    LET warp == s.blk[last].warp
        n == NewList(_set_flow_to(s, start, body[1]), body)
    IN
    IF warp.k # "UnconditionalWarp" THEN Ret(Raise(s, "AssertionError"), <<>>)
    ELSE IF warp.target # start THEN Ret(Raise(s, "AssertionError"), <<>>)
    ELSE IF Len(body) = 0 THEN Ret(Raise(s, "IndexError"), <<>>)
    ELSE Ret(n.s,
             IF kind = "IteratorFor"
             THEN [k |-> kind, identifiers |-> s.blk[start].warp.variables,
                   expressions |-> s.blk[start].warp.controls, statements |-> n.v]
             ELSE [k |-> kind, variable |-> s.blk[start].warp.index,
                   expressions |-> s.blk[start].warp.controls, statements |-> n.v])

\* repeat_until_loop that leaves the contents of start where they were
repeat_until_loop_keeping_start(s, start, end, last, body) ==
    LET i == until_start(s, body, Len(body) - 1)
        expression0 == IF i = -1 THEN From(body, Max(Len(body) - 1, 0)) ELSE From(body, i)
        body0 == Upto(body, i + 1)
        early == _is_jump(s.blk[expression0[1]].warp)
        expression == IF early THEN Tail(expression0) ELSE expression0
        s1 == IF early
              THEN [s EXCEPT !.blk[Last(body0)].contents = Append(@, Break)]
              ELSE s
    IN
    IF s.blk[last].warp.k # "ConditionalWarp" \/ s.blk[last].warp.false_target # start
       \/ Len(expression0) = 0 \/ Len(body0) = 0 \/ Len(expression) = 0
    THEN Ret(Raise(s, "AssertionError"), <<>>)
    ELSE Bind(_compile_expression(s1, expression, None,
                                  s1.blk[Last(expression)].warp.true_target, body0[1]),
              LAMBDA e :
    IF ~Ok(e.s) THEN Ret(e.s, <<>>)
    ELSE Bind(NewBlock(e.s, e.s.blk[start]), LAMBDA c :
    LET start_copy == c.v
        s3 == IF Len(body0) > 1
              THEN _set_flow_to(c.s, start_copy, body0[2])
              ELSE [c.s EXCEPT !.blk[start_copy].warp = EndWarp]
        s4 == _set_flow_to(s3, start, start_copy)
    IN
    Bind(NewList(s4, <<start_copy>> \o Tail(body0)), LAMBDA n :
    Ret(n.s, [k |-> "RepeatUntil", expression |-> e.v, statements |-> n.v]))))

while_loop(s, start, end, last, body) ==
    LET plain == _is_flow(s.blk[start].warp) IN
    IF s.blk[last].warp.target # start THEN Ret(Raise(s, "AssertionError"), <<>>)
    ELSE IF ~plain /\ Len(body) = 0 THEN Ret(Raise(s, "UnboundLocalError"), <<>>)
    ELSE Bind(condition_end(s, body, 0), LAMBDA i :
    LET expression == <<start>> \o Upto(body, i.v)
        rest == From(body, i.v)
    IN
    IF ~plain /\ i.err # "ok" THEN Ret(Raise(s, i.err), <<>>)
    ELSE Bind(_fix_expression(s, expression, start, end), LAMBDA s1 :
    IF ~plain /\ ~Ok(s1) THEN Ret(s1, <<>>)
    ELSE Bind(_compile_expression(s1, expression, None, rest[1], end), LAMBDA e :
    IF ~plain /\ ~Ok(e.s) THEN Ret(e.s, <<>>)
    ELSE Bind(_fix_nested_ifs(IF plain THEN s ELSE e.s, IF plain THEN body ELSE rest,
                              start), LAMBDA f :
    IF ~Ok(f.s) THEN Ret(f.s, <<>>)
    ELSE Bind(NewList(_set_flow_to(f.s, start, f.v[1]), f.v), LAMBDA n :
    Ret(n.s, [k |-> "While",
              expression |-> IF plain THEN Primitive("T_TRUE") ELSE e.v,
              statements |-> n.v]))))))

repeat_until_loop(s, start, end, last, body) ==
    LET i == until_start(s, body, Len(body) - 1)
        expression0 == IF i = -1 THEN From(body, Max(Len(body) - 1, 0)) ELSE From(body, i)
        body0 == Upto(body, i + 1)
        early == _is_jump(s.blk[expression0[1]].warp)
        expression == IF early THEN Tail(expression0) ELSE expression0
        s1 == IF early
              THEN [s EXCEPT !.blk[Last(body0)].contents = Append(@, Break)]
              ELSE s
        false == body0[1]
        true == s1.blk[Last(expression)].warp.true_target
    IN
    IF s.blk[last].warp.k # "ConditionalWarp" THEN Ret(Raise(s, "AssertionError"), <<>>)
    ELSE IF s.blk[last].warp.false_target # start
    THEN Ret(Raise(s, "AssertionError"), <<>>)
    ELSE IF Len(expression0) = 0 THEN Ret(Raise(s, "AssertionError"), <<>>)
    ELSE IF early /\ Len(body0) = 0 THEN Ret(Raise(s, "IndexError"), <<>>)
    ELSE IF Len(body0) = 0 THEN Ret(Raise(s1, "IndexError"), <<>>)
    ELSE IF Len(expression) = 0 THEN Ret(Raise(s1, "IndexError"), <<>>)
    ELSE IF s1.blk[Last(expression)].warp.k # "ConditionalWarp"
    THEN Ret(Raise(s1, "AttributeError"), <<>>)
    ELSE Bind(_compile_expression(s1, expression, None, true, false), LAMBDA e :
    IF ~Ok(e.s) THEN Ret(e.s, <<>>)
    ELSE Bind(NewBlock(e.s, e.s.blk[start]), LAMBDA c :
    LET start_copy == c.v
        s2 == [c.s EXCEPT !.blk[start].contents = <<>>]
        s3 == IF Len(body0) > 1
              THEN _set_flow_to(s2, start_copy, body0[2])
              ELSE [s2 EXCEPT !.blk[start_copy].warp = EndWarp]
        s4 == _set_flow_to(s3, start, start_copy)
    IN
    Bind(NewList(s4, <<start_copy>> \o Tail(body0)), LAMBDA n :
    Ret(n.s, [k |-> "RepeatUntil", expression |-> e.v, statements |-> n.v]))))

_unwarp_loop(s, start, end, body) ==
    LET last == IF Len(body) > 0 THEN Last(body) ELSE start IN
    IF s.blk[start].warp.k = "IteratorWarp"
    THEN for_loop(s, "IteratorFor", start, last, body)
    ELSE IF s.blk[start].warp.k = "NumericLoopWarp"
    THEN for_loop(s, "NumericFor", start, last, body)
    ELSE IF s.blk[last].warp.k = "UnconditionalWarp"
    THEN while_loop(s, start, end, last, body)
    ELSE repeat_until_loop(s, start, end, last, body)

----------------------------------------------------------------------------
(* Break propagation.                                                      *)

BREAK_INFINITE == 0
BREAK_ONE_USE == 1

\* the set of ends, or "Hang" where the while loop never ends: the walk is back
\* at a block it left through a jump
RECURSIVE _gather_possible_ends(_, _, _)
_gather_possible_ends(s, block, ends) ==
    LET warp == s.blk[block].warp IN
    IF ~_is_jump(warp) THEN Val(ends)
    ELSE IF warp.target = None THEN Exc("AttributeError")
    ELSE IF warp.target \in ends THEN Exc("Hang")
    ELSE _gather_possible_ends(s, warp.target, ends \cup {warp.target})

\* mark_breaks that appends the Break to the block whatever warps into it
RECURSIVE mark_breaks_without_split(_, _, _, _, _, _)
mark_breaks_without_split(s, blocks, blocks_set, ends, i, acc) ==
    LET block == At(blocks, i)
        warp == s.blk[block].warp
        target == _get_target(warp)
        keep == [acc EXCEPT !.patched = Append(@, block)]
        s2 == [s EXCEPT !.blk[block].contents = Append(@, Break)]
        s3 == IF i + 1 = Len(blocks)
              THEN [s2 EXCEPT !.blk[block].warp = EndWarp]
              ELSE _set_flow_to(s2, block, At(blocks, i + 1))
    IN
    IF ~(i < Len(blocks)) THEN Ret(s, acc)
    ELSE IF warp.k # "UnconditionalWarp"
    THEN mark_breaks_without_split(s, blocks, blocks_set, ends, i + 1, keep)
    ELSE IF target \in blocks_set
    THEN mark_breaks_without_split(s, blocks, blocks_set, ends, i + 1, keep)
    ELSE IF target \notin ends THEN Ret(Raise(s, "AssertionError: GOTO statements are not supported"), acc)
    ELSE mark_breaks_without_split(s3, blocks, blocks_set, ends, i + 1,
            [patched |-> Append(acc.patched, block),
             breaks |-> acc.breaks \cup {block}])

\* the first for loop of _unwarp_breaks, from position i
RECURSIVE mark_breaks(_, _, _, _, _, _)
mark_breaks(s, blocks, blocks_set, ends, i, acc) ==
    LET block == At(blocks, i)
        warp == s.blk[block].warp
        target == _get_target(warp)
        keep == [acc EXCEPT !.patched = Append(@, block)]
        split == s.blk[block].warpins_count # 0
        c == _create_next_block(s, block)
        new_block == c.v
        s1 == IF split THEN _set_flow_to(c.s, block, new_block) ELSE s
        holder == IF split THEN new_block ELSE block
        s2 == [s1 EXCEPT !.blk[holder].contents = Append(@, Break)]
        s3 == IF i + 1 = Len(blocks)
              THEN [s2 EXCEPT !.blk[holder].warp = EndWarp]
              ELSE _set_flow_to(s2, holder, At(blocks, i + 1))
    IN
    IF ~(i < Len(blocks)) THEN Ret(s, acc)
    ELSE IF warp.k # "UnconditionalWarp"
    THEN mark_breaks(s, blocks, blocks_set, ends, i + 1, keep)
    ELSE IF target \in blocks_set
    THEN mark_breaks(s, blocks, blocks_set, ends, i + 1, keep)
    ELSE IF target \notin ends THEN Ret(Raise(s, "AssertionError: GOTO statements are not supported"), acc)
    ELSE mark_breaks(s3, blocks, blocks_set, ends, i + 1,
            [patched |-> IF split THEN acc.patched \o <<block, new_block>>
                         ELSE Append(acc.patched, block),
             breaks |-> acc.breaks \cup {holder}])

\* the second for loop of _unwarp_breaks, over reversed(blocks)
\* a break is <<type, block>>; pending_break is <<>> for None
RECURSIVE bind_breaks(_, _, _, _, _, _)
bind_breaks(s, reversed, blocks_set, ends, breaks, acc) ==
    LET block == Head(reversed)
        rest == Tail(reversed)
        warp == s.blk[block].warp
        target == _get_target(warp)
        top_break == Last(acc.breaks_stack)
        bound == IF acc.pending_break = <<>> THEN top_break[2] ELSE acc.pending_break[2]
        s1 == [s EXCEPT !.blk[block].warp = _set_target(warp, bound)]
        acc1 == IF acc.pending_break = <<>>
                THEN IF top_break[1] = BREAK_ONE_USE
                     THEN [acc EXCEPT !.pending_break = top_break,
                                      !.breaks_stack = Upto(@, Len(@) - 1),
                                      !.warpsout = <<>>]
                     ELSE [acc EXCEPT !.warpsout = Append(@, block)]
                ELSE [acc EXCEPT !.warpsout = Append(@, block)]
        acc2 == IF Len(s.blk[block].contents) > 0
                THEN [acc1 EXCEPT !.pending_break = <<>>]
                ELSE acc1
    IN
    IF reversed = <<>> THEN Ret(s, acc)
    ELSE IF block \in breaks
    THEN bind_breaks(s, rest, blocks_set, ends, breaks,
            [acc EXCEPT !.pending_break = <<>>,
                        !.breaks_stack =
                            Append(@, <<IF s.blk[block].warpins_count = 0
                                        THEN BREAK_ONE_USE ELSE BREAK_INFINITE,
                                        block>>)])
    ELSE IF warp.k # "ConditionalWarp"
    THEN bind_breaks(s, rest, blocks_set, ends, breaks,
            IF _is_flow(warp) THEN [acc EXCEPT !.pending_break = <<>>] ELSE acc)
    ELSE IF target \in blocks_set
    THEN bind_breaks(s, rest, blocks_set, ends, breaks, acc)
    ELSE IF target \notin ends THEN Ret(Raise(s, "AssertionError: GOTO statements are not supported"), acc)
    ELSE IF acc.pending_break = <<>> /\ Len(acc.breaks_stack) = 0
    THEN Ret(Raise(s, "AssertionError"), acc)
    ELSE bind_breaks(s1, rest, blocks_set, ends, breaks, acc2)

RECURSIVE drop_infinite(_)
drop_infinite(breaks_stack) ==
    IF Len(breaks_stack) > 0 /\ Last(breaks_stack)[1] = BREAK_INFINITE
    THEN drop_infinite(Upto(breaks_stack, Len(breaks_stack) - 1))
    ELSE breaks_stack

\* And pray for the best...
RECURSIVE bind_leftovers(_, _, _)
bind_leftovers(s, warpsout, breaks_stack) ==
    IF Len(warpsout) > 0 /\ Len(breaks_stack) > 0
    THEN bind_leftovers(
            [s EXCEPT !.blk[Last(warpsout)].warp = _set_target(@, Last(breaks_stack)[2])],
            Upto(warpsout, Len(warpsout) - 1),
            Upto(breaks_stack, Len(breaks_stack) - 1))
    ELSE s

\* returns the state and the body as patched (blocks[:] = patched)
unwarp_breaks_body(s, start, blocks, next_block) ==
    LET blocks_set == {start} \cup Range(blocks) IN
    Bind(_gather_possible_ends(s, next_block, {next_block}), LAMBDA ends :
    IF ends.err # "ok" THEN Ret(Raise(s, ends.err), blocks)
    ELSE Bind(mark_breaks(s, blocks, blocks_set, ends.v, 0,
                          [patched |-> <<>>, breaks |-> {}]), LAMBDA m :
    IF ~Ok(m.s) THEN Ret(m.s, blocks)
    ELSE IF m.v.breaks = {} THEN Ret(m.s, m.v.patched)
    ELSE Bind(bind_breaks(m.s, Reverse(m.v.patched), blocks_set, ends.v, m.v.breaks,
                          [breaks_stack |-> <<>>, warpsout |-> <<>>,
                           pending_break |-> <<>>]), LAMBDA b :
    IF ~Ok(b.s) THEN Ret(b.s, m.v.patched)
    ELSE Ret(bind_leftovers(b.s, b.v.warpsout, drop_infinite(b.v.breaks_stack)),
             m.v.patched))))

\* the call is recorded in the history with the arena before and after it
_unwarp_breaks(s, start, blocks, next_block) ==
    Bind(unwarp_breaks_body(s, start, blocks, next_block), LAMBDA r :
    LET entry == [op |-> "_unwarp_breaks", start |-> start, blocks |-> blocks,
                  next_block |-> next_block, pre |-> s.blk, post |-> r.s.blk,
                  patched |-> r.v, err |-> r.s.err]
    IN Ret([r.s EXCEPT !.log = Append(@, entry)], r.v))

----------------------------------------------------------------------------
(* Loops.                                                                  *)

\* the first for loop of _unwarp_loops: loops sharing a start are fake, the
\* jump that closes the later one is sent to the end of the first
RECURSIVE fix_loops(_, _, _, _, _, _)
fix_loops(s, blocks, loops, last_start_index, last_end, fixed) ==
    LET start == Head(loops)[1]
        end == Head(loops)[2]
        index == IndexOf(blocks, end)
        closing == At(blocks, (index - 1) % Len(blocks))
        warp == s.blk[closing].warp
        last_end_index == IndexOf(blocks, last_end)
        target == At(blocks, (last_end_index - 1) % Len(blocks))
    IN
    IF loops = <<>> THEN Ret(s, fixed)
    ELSE IF s.blk[start].index = last_start_index
    THEN IF last_end = None THEN Ret(Raise(s, "AssertionError"), fixed)
         ELSE IF index = -1 THEN Ret(Raise(s, "ValueError"), fixed)
         ELSE IF warp.k # "UnconditionalWarp" THEN Ret(Raise(s, "AssertionError"), fixed)
         ELSE IF warp.target # start THEN Ret(Raise(s, "AssertionError"), fixed)
         ELSE IF last_end_index = -1 THEN Ret(Raise(s, "ValueError"), fixed)
         ELSE fix_loops([s EXCEPT !.blk[closing].warp.target = target], blocks,
                        Tail(loops), last_start_index, last_end, fixed)
    ELSE fix_loops(s, blocks, Tail(loops), s.blk[start].index, end,
                   Append(fixed, Head(loops)))

\* the second for loop of _unwarp_loops: one loop is reduced per iteration
RECURSIVE reduce_loops(_, _, _, _)
reduce_loops(s, blocks, fixed, repeat_until) ==
    LET start == Head(fixed)[1]
        end == Head(fixed)[2]
        start_index == IndexOf(blocks, start)
        end_index == IndexOf(blocks, end)
        body0 == IF repeat_until THEN Slice(blocks, start_index, end_index)
                 ELSE Slice(blocks, start_index + 1, end_index)
    IN
    IF fixed = <<>> THEN Ret(s, blocks)
    ELSE IF start_index = -1 \/ end_index = -1 THEN Ret(Raise(s, "ValueError"), blocks)
    ELSE Bind(_unwarp_loop(s, start, end, body0), LAMBDA l :
    LET loop == l.v
        body == BlockIds(l.s.lst[loop.statements])
    IN
    IF ~Ok(l.s) THEN Ret(l.s, blocks)
    ELSE IF Len(body) = 0 THEN Ret(Raise(l.s, "IndexError"), blocks)
    ELSE Bind(NewBlock(l.s, Block(l.s.blk[start].index + 1, <<loop>>,
                                  UnconditionalWarp("T_FLOW", end), 0)), LAMBDA c :
    LET block == c.v IN
    Bind(_replace_targets(c.s, blocks, body[1], block), LAMBDA s1 :
    IF ~Ok(s1) THEN Ret(s1, blocks)
    ELSE Bind(_unwarp_breaks([s1 EXCEPT !.blk[Last(body)].warp = EndWarp],
                             start, body, end), LAMBDA b :
    LET s3 == [b.s EXCEPT !.lst[loop.statements] = BlockRefs(b.v)] IN
    IF ~Ok(s3) THEN Ret(s3, blocks)
    ELSE reduce_loops(s3, Upto(blocks, start_index + 1) \o <<block>> \o
                              From(blocks, end_index),
                      Tail(fixed), repeat_until)))))

_unwarp_loops(s, blocks, repeat_until) ==
    Bind(_find_all_loops(s, blocks, repeat_until), LAMBDA loops :
    IF ~Ok(loops.s) THEN Ret(loops.s, blocks)
    ELSE Bind(fix_loops(loops.s, blocks, loops.v, -1, None, <<>>), LAMBDA fixed :
    IF ~Ok(fixed.s) THEN Ret(fixed.s, blocks)
    ELSE reduce_loops(fixed.s, blocks, fixed.v, repeat_until)))

----------------------------------------------------------------------------
(* Ifs: the extent of a branching region.                                  *)

RECURSIVE _find_branching_end(_, _, _)
_find_branching_end(s, blocks, end) ==
    LET block == Head(blocks)
        warp == s.blk[block].warp
        target == _get_target(warp)
    IN
    IF blocks = <<>> THEN Val(end)
    ELSE IF ~HasTarget(warp) THEN Exc("AssertionError")
    ELSE IF _is_flow(warp) /\ target = end THEN Val(end)
    ELSE IF target = None THEN Exc("AttributeError")
    ELSE IF s.blk[target].index > s.blk[end].index
    THEN _find_branching_end(s, Tail(blocks), target)
    ELSE _find_branching_end(s, Tail(blocks), end)

\* none stands for the (None, None, None) returned for a goto
_extract_if_body(s, start_index, blocks, topmost_end) ==
    Bind(_find_branching_end(s, From(blocks, start_index), At(blocks, start_index)),
         LAMBDA end :
    LET found == IndexOf(blocks, end.v)
        end_index == IF found = -1 THEN Len(blocks) ELSE found
        result == [err |-> "ok", none |-> FALSE, end |-> end.v, end_index |-> end_index,
                   body |-> Slice(blocks, start_index + 1, end_index)]
    IN
    IF end.err # "ok"
    THEN [err |-> end.err, none |-> TRUE, end |-> None, end_index |-> 0, body |-> <<>>]
    ELSE IF found = -1 /\ end.v # topmost_end THEN [result EXCEPT !.none = TRUE]
    ELSE result)

RECURSIVE remove_processed_loop(_, _, _, _)
remove_processed_loop(blocks, boundaries, last_end_index, remains) ==
    LET start == Head(boundaries)[1]
        end == Head(boundaries)[2]
        up_to_index == IF start = end THEN start ELSE start + 1
    IN
    IF boundaries = <<>> THEN remains \o From(blocks, last_end_index + 1)
    ELSE remove_processed_loop(blocks, Tail(boundaries), end,
            remains \o Slice(blocks, last_end_index + 1, up_to_index))

\* _remove_processed_blocks with last_end_index starting at 0
_remove_processed_blocks_after_first(blocks, boundaries) ==
    remove_processed_loop(blocks, boundaries, 0, <<>>)

_remove_processed_blocks(blocks, boundaries) ==
    remove_processed_loop(blocks, boundaries, -1, <<>>)

----------------------------------------------------------------------------
(* Ifs: a region that is a logical expression.                             *)

_get_simple_local_assignment_slot(s, start, body, end) ==
    LET t == _get_terminators(s, body)
        destinations == s.blk[t.true].contents[1].destinations
    IN
    IF Len(body) # 2 THEN Val(-1)
    ELSE IF t.err # "ok" THEN Exc(t.err)
    ELSE IF t.true = None THEN Val(-1)
    ELSE IF Len(destinations) = 0 THEN Exc("IndexError")
    ELSE IF destinations[1].k # "Identifier" THEN Exc("AttributeError")
    ELSE Val(destinations[1].slot)

\* getattr(warp, "_slot", default)
warp_slot(warp, default) ==
    IF "_slot" \in DOMAIN warp THEN warp["_slot"] ELSE default

RECURSIVE _find_expressions(_, _, _, _), _find_subexpressions(_, _, _),
          find_expressions_loop(_, _, _, _, _, _)

\* the while loop of _find_expressions from position i of extbody;
\* st holds slot, is_local, sure_expression and expressions
find_expressions_loop(s, start, body, end, i, st) ==
    LET extbody == <<start>> \o body
        block == At(extbody, i)
        warp == s.blk[block].warp
        contents == s.blk[block].contents
        is_end == warp.k = "ConditionalWarp" /\ warp.false_target = end
        is_binop == warp.condition.k = "BinaryOperator"
        block_slot == warp_slot(warp, st.slot)
        st1 == IF is_end /\ st.slot < 0 /\ block_slot >= 0
               THEN [st EXCEPT !.slot = block_slot, !.sure_expression = TRUE]
               ELSE IF is_end THEN [st EXCEPT !.sure_expression = TRUE]
               ELSE st
        assignment == contents[1]
        dst == assignment.destinations[1]
        st2 == IF st1.slot < 0
               THEN [st1 EXCEPT !.slot = dst.slot,
                                !.is_local = (dst.type = "T_LOCAL") \/ @]
               ELSE st1
    IN
    IF ~(i < Len(extbody))
    THEN (IF st.slot < 0 THEN Val(<<>>)
          ELSE Bind(_get_terminators(s, body), LAMBDA t :
          LET sure_expression == st.sure_expression \/ t.true # None
                                 \/ Len(st.expressions) > 0
          IN
          IF t.err # "ok" THEN Exc(t.err)
          ELSE IF ~sure_expression /\ st.is_local THEN Val(<<>>)
          ELSE Val(Append(st.expressions, <<start, end, st.slot>>))))
    ELSE Bind(_find_subexpressions(s, block, From(body, i)), LAMBDA subs :
    LET endest_end == Last(subs.v)[2]
        new_i == IndexOf(extbody, endest_end)
    IN
    IF subs.err # "ok" THEN subs
    ELSE IF Len(subs.v) # 0
    THEN (IF new_i = -1 THEN Exc("ValueError")
          ELSE IF new_i <= i THEN Val(<<>>)
          ELSE IF s.blk[endest_end].warp.k # "ConditionalWarp" THEN Val(<<>>)
          ELSE find_expressions_loop(s, start, body, end, new_i,
                    [st EXCEPT !.expressions = @ \o subs.v]))
    ELSE IF is_end /\ is_binop THEN Val(<<>>)
    ELSE IF is_end /\ ~(st.slot < 0 /\ block_slot >= 0) /\ st.slot # block_slot
    THEN Val(<<>>)
    ELSE IF block = start \/ Len(contents) = 0
    THEN find_expressions_loop(s, start, body, end, i + 1, st1)
    ELSE IF Len(contents) > 1 THEN Val(<<>>)
    ELSE IF assignment.k # "Assignment" THEN Val(<<>>)
    ELSE IF Len(assignment.destinations) # 1 THEN Val(<<>>)
    ELSE IF dst.k # "Identifier" THEN Val(<<>>)
    ELSE IF warp.k = "ConditionalWarp" THEN Val(<<>>)
    ELSE IF st1.slot >= 0 /\ st1.slot # dst.slot THEN Val(<<>>)
    ELSE find_expressions_loop(s, start, body, end, i + 1, st2))

\* the (start, end, slot) triples, innermost first, or the exception
_find_expressions(s, start, body, end) ==
    Bind(_get_simple_local_assignment_slot(s, start, body, end), LAMBDA slot :
    IF slot.err # "ok" THEN slot
    ELSE IF slot.v >= 0 THEN Val(<<<<start, end, slot.v>>>>)
    ELSE find_expressions_loop(s, start, body, end, 0,
            [slot |-> slot.v, is_local |-> FALSE, sure_expression |-> FALSE,
             expressions |-> <<>>]))

\* with an empty body the region found is start alone and ends at start:
\* the call repeats itself until Python gives up
_find_subexpressions(s, start, body) ==
    Bind(_extract_if_body(s, 0, <<start>> \o body, None), LAMBDA x :
    IF x.err # "ok" THEN Exc(x.err)
    ELSE IF x.none THEN Val(<<>>)
    ELSE IF body = <<>> THEN Exc("RecursionError")
    ELSE _find_expressions(s, start, x.body, x.end))

\* for block in reversed(body): the destination of the last single statement
RECURSIVE last_slot(_, _)
last_slot(s, body) ==
    LET contents == s.blk[Last(body)].contents IN
    IF body = <<>> THEN Exc("AssertionError")
    ELSE IF Len(contents) # 1 THEN last_slot(s, Upto(body, Len(body) - 1))
    ELSE IF contents[1].k # "Assignment" THEN Exc("AttributeError")
    ELSE IF Len(contents[1].destinations) = 0 THEN Exc("IndexError")
    ELSE Val(contents[1].destinations[1])

_unwarp_logical_expression(s, start, end, body, topmost_end) ==
    Bind(last_slot(s, body), LAMBDA slot :
    IF slot.err # "ok" THEN Raise(s, slot.err)
    ELSE Bind(_get_terminators(s, body), LAMBDA t :
    IF t.err # "ok" THEN Raise(s, t.err)
    ELSE Bind(_compile_expression(s, <<start>> \o t.body, end, t.true, t.false),
              LAMBDA e :
    LET assignment == Assignment(<<slot.v>>, <<e.v>>) IN
    IF ~Ok(e.s) THEN e.s
    ELSE [e.s EXCEPT !.blk[start].contents = Append(@, assignment)])))

\* slotworks.eliminate_temporary: a copy of a temporary slot made by the next
\* statement is folded into that statement
RECURSIVE fold_temporaries(_)
fold_temporaries(contents) ==
    LET first == contents[1]
        second == contents[2]
        temporary == /\ first.k = "Assignment"
                     /\ Len(first.destinations) = 1
                     /\ first.destinations[1].k = "Identifier"
                     /\ first.destinations[1].type = "T_SLOT"
        copied == /\ second.k = "Assignment"
                  /\ second.expressions = first.destinations
    IN
    IF Len(contents) < 2 THEN contents
    ELSE IF temporary /\ copied
    THEN fold_temporaries(<<Assignment(second.destinations, first.expressions)>>
                          \o Tail(Tail(contents)))
    ELSE <<first>> \o fold_temporaries(Tail(contents))

eliminate_temporary(s, block) ==
    [s EXCEPT !.blk[block].contents = fold_temporaries(@)]

\* the for loop of _try_unwarp_logical_expression
RECURSIVE unwarp_expressions(_, _, _, _)
unwarp_expressions(s, blocks, expressions, topmost_end) ==
    LET start == Head(expressions)[1]
        end == Head(expressions)[2]
        start_index == IndexOf(blocks, start)
        end_index == IndexOf(blocks, end)
        body == Slice(blocks, start_index + 1, end_index)
    IN
    IF start_index = -1 \/ end_index = -1 THEN Raise(s, "ValueError")
    ELSE Bind(_unwarp_logical_expression(s, start, end, body, topmost_end), LAMBDA s1 :
    LET s2 == [s1 EXCEPT !.blk[end].contents = s1.blk[start].contents \o @] IN
    IF ~Ok(s1) THEN s1
    ELSE IF Len(expressions) = 1 THEN s1
    ELSE unwarp_expressions(eliminate_temporary(s2, end),
                            Upto(blocks, start_index) \o From(blocks, end_index),
                            Tail(expressions), topmost_end))

\* v: whether the region was a logical expression
_try_unwarp_logical_expression(s, start, blocks, end, topmost_end) ==
    Bind(_find_expressions(s, start, blocks, end), LAMBDA expressions :
    IF expressions.err # "ok" THEN Ret(Raise(s, expressions.err), FALSE)
    ELSE IF Len(expressions.v) = 0 THEN Ret(s, FALSE)
    ELSE Ret(unwarp_expressions(s, <<start>> \o blocks \o <<end>>, expressions.v,
                                topmost_end), TRUE))

----------------------------------------------------------------------------
(* Ifs: a region that is an if statement.                                  *)

\* (false, expression_end) of _search_expression_end from position i
RECURSIVE _search_expression_end(_, _, _, _, _, _)
_search_expression_end(s, expression, falses, i, false, expression_end) ==
    LET warp == s.blk[At(expression, i)].warp
        target == _get_target(warp)
        result == [err |-> "ok", false |-> false, end_i |-> expression_end]
    IN
    IF ~(i < Len(expression))
    THEN (IF false = None THEN [result EXCEPT !.err = "AssertionError"] ELSE result)
    ELSE IF ~HasTarget(warp) THEN [result EXCEPT !.err = "AssertionError"]
    ELSE IF target \notin falses
    THEN _search_expression_end(s, expression, falses, i + 1, false, expression_end)
    ELSE IF false = None \/ target = false
    THEN _search_expression_end(s, expression, falses, i + 1, target, i + 1)
    ELSE result

\* for i, block in enumerate(body): the i left by the loop
RECURSIVE first_statement(_, _, _)
first_statement(s, body, i) ==
    IF Len(s.blk[At(body, i)].contents) # 0 THEN i
    ELSE IF i + 1 = Len(body) THEN i
    ELSE first_statement(s, body, i + 1)

\* the blocks that follow a jump out of the region
jump_successors(s, body, end, topmost_end) ==
    {At(body, i + 1) : i \in {j \in 0..(Len(body) - 2) :
        LET warp == s.blk[At(body, j)].warp IN
        /\ _is_jump(warp)
        /\ (warp.target = end \/ warp.target = topmost_end)}}

_extract_if_expression(s, start, body, end, topmost_end) ==
    LET i == first_statement(s, body, 0)
        expression0 == <<start>> \o Upto(body, i)
        body0 == From(body, i)
        falses == jump_successors(s, body0, end, topmost_end) \cup {end}
                  \cup (IF topmost_end # None THEN {topmost_end} ELSE {})
        raised(e_) == [s |-> Raise(s, e_), expression |-> NoExpr, body |-> body,
                       false |-> None]
    IN
    IF Len(body) = 0 THEN raised("UnboundLocalError")
    ELSE Bind(_search_expression_end(s, expression0, falses, 0, None, -1),
              LAMBDA found :
    LET body1 == From(expression0, found.end_i) \o body0
        expression == Upto(expression0, found.end_i)
    IN
    IF found.err # "ok" THEN raised(found.err)
    ELSE IF ~(found.end_i >= 0) \/ Len(expression) = 0 THEN raised("AssertionError")
    ELSE Bind(_compile_expression(s, expression, None, body1[1], found.false),
              LAMBDA e :
    [s |-> e.s, expression |-> e.v, body |-> body1, false |-> found.false]))

RECURSIVE _unwarp_ifs(_, _, _, _), _unwarp_if_statement(_, _, _, _, _),
          unwarp_ifs_loop(_, _, _, _, _)

\* the branch of _unwarp_if_statement with an else
if_then_else(s, start, x, end, topmost_end) ==
    LET body == x.body
        else_start_index == IndexOf(body, x.false)
        then_body == Upto(body, else_start_index)
        else_body == From(body, else_start_index)
        then_warp_out == s.blk[Last(then_body)].warp
        else_warp_out == s.blk[Last(else_body)].warp
    IN
    IF else_start_index = -1 THEN Raise(s, "ValueError")
    ELSE IF Len(then_body) = 0 THEN Raise(s, "IndexError")
    ELSE IF ~(_is_jump(then_warp_out)
              /\ (then_warp_out.target = end \/ then_warp_out.target = topmost_end))
    THEN Raise(s, "AssertionError")
    ELSE IF ~(else_warp_out.k = "UnconditionalWarp"
              /\ (else_warp_out.target = end \/ else_warp_out.target = topmost_end))
    THEN Raise(s, "AssertionError")
    ELSE Bind(_unwarp_ifs(s, then_body, Last(then_body), topmost_end),
              LAMBDA then_blocks :
    IF ~Ok(then_blocks.s) THEN then_blocks.s
    ELSE Bind(_unwarp_ifs(then_blocks.s, else_body, Last(else_body), topmost_end),
              LAMBDA else_blocks :
    LET s1 == [else_blocks.s EXCEPT !.blk[Last(then_blocks.v)].warp = EndWarp]
        s2 == [s1 EXCEPT !.blk[Last(else_blocks.v)].warp = EndWarp]
    IN
    IF ~Ok(else_blocks.s) THEN else_blocks.s
    ELSE IF Len(then_blocks.v) = 0 THEN Raise(else_blocks.s, "IndexError")
    ELSE IF Len(else_blocks.v) = 0 THEN Raise(s1, "IndexError")
    ELSE Bind(NewList(s2, then_blocks.v), LAMBDA then_block :
         Bind(NewList(then_block.s, else_blocks.v), LAMBDA else_block :
    LET node == [k |-> "If", expression |-> x.expression,
                 then_block |-> then_block.v, else_block |-> else_block.v]
    IN [else_block.s EXCEPT !.blk[start].contents = Append(@, node)]))))

\* the branch of _unwarp_if_statement without an else; a warp never equals
\* topmost_end, a block
if_then(s, start, x, end, topmost_end) ==
    LET body == x.body IN
    IF Len(body) = 0 THEN Raise(s, "IndexError")
    ELSE Bind(_unwarp_ifs(s, body, Last(body), topmost_end), LAMBDA then_blocks :
    LET warp_out == then_blocks.s.blk[Last(body)].warp
        s1 == [then_blocks.s EXCEPT !.blk[Last(then_blocks.v)].warp = EndWarp]
    IN
    IF ~Ok(then_blocks.s) THEN then_blocks.s
    ELSE IF warp_out.k # "EndWarp"
            /\ ~(warp_out.k = "UnconditionalWarp" /\ warp_out.target = end)
    THEN Raise(then_blocks.s, "AssertionError")
    ELSE IF Len(then_blocks.v) = 0 THEN Raise(then_blocks.s, "IndexError")
    ELSE Bind(NewList(s1, then_blocks.v), LAMBDA then_block :
         Bind(NewList(then_block.s, <<>>), LAMBDA else_block :
    LET node == [k |-> "If", expression |-> x.expression,
                 then_block |-> then_block.v, else_block |-> else_block.v]
    IN [else_block.s EXCEPT !.blk[start].contents = Append(@, node)])))

_unwarp_if_statement(s, start, body, end, topmost_end) ==
    Bind(_extract_if_expression(s, start, body, end, topmost_end), LAMBDA x :
    IF ~Ok(x.s) THEN x.s
    ELSE IF x.false # end /\ x.false # topmost_end
    THEN if_then_else(x.s, start, x, end, topmost_end)
    ELSE if_then(x.s, start, x, end, topmost_end))

\* unwarp_ifs_loop going past a region whose end is a goto
unwarp_ifs_loop_past_goto(s, blocks, topmost_end, start_index, boundaries) ==
    LET start == At(blocks, start_index) IN
    IF ~(start_index < Len(blocks) - 1)
    THEN Ret(s, _remove_processed_blocks(blocks, boundaries))
    ELSE IF _is_flow(s.blk[start].warp)
    THEN unwarp_ifs_loop(s, blocks, topmost_end, start_index + 1, boundaries)
    ELSE Bind(_extract_if_body(s, start_index, blocks, topmost_end), LAMBDA x :
    IF x.err # "ok" THEN Ret(Raise(s, x.err), blocks)
    ELSE Bind(_try_unwarp_logical_expression(s, start, x.body, x.end, x.end),
              LAMBDA t :
         Bind(IF ~Ok(t.s) \/ t.v THEN t.s
              ELSE _unwarp_if_statement(t.s, start, x.body, x.end, x.end),
              LAMBDA s1 :
         Bind(IF x.none \/ ~Ok(s1) THEN s1 ELSE _set_flow_to(s1, start, x.end),
              LAMBDA s2 :
    LET entry == [op |-> "_unwarp_ifs", start |-> start, blocks |-> blocks,
                  topmost_end |-> topmost_end, end |-> x.end, pre |-> s.blk,
                  post |-> s2.blk, err |-> s2.err]
        s3 == [s2 EXCEPT !.log = Append(@, entry)]
    IN
    IF ~Ok(s3) THEN Ret(s3, blocks)
    ELSE unwarp_ifs_loop(s3, blocks, topmost_end, x.end_index,
                         Append(boundaries, <<start_index, x.end_index - 1>>))))))

\* the while loop of _unwarp_ifs from start_index; each region met is
\* recorded in the history with the arena before and after it
unwarp_ifs_loop(s, blocks, topmost_end, start_index, boundaries) ==
    LET start == At(blocks, start_index) IN
    IF ~(start_index < Len(blocks) - 1)
    THEN Ret(s, _remove_processed_blocks(blocks, boundaries))
    ELSE IF _is_flow(s.blk[start].warp)
    THEN unwarp_ifs_loop(s, blocks, topmost_end, start_index + 1, boundaries)
    ELSE Bind(_extract_if_body(s, start_index, blocks, topmost_end), LAMBDA x :
    IF x.err # "ok" THEN Ret(Raise(s, x.err), blocks)
    ELSE Bind(_try_unwarp_logical_expression(s, start, x.body, x.end, x.end),
              LAMBDA t :
         Bind(IF ~Ok(t.s) \/ t.v THEN t.s
              ELSE _unwarp_if_statement(t.s, start, x.body, x.end, x.end),
              LAMBDA s1 :
         Bind(IF x.none
              THEN Raise(s, "NotImplementedError: GOTO statements are not supported")
              ELSE IF ~Ok(s1) THEN s1
              ELSE _set_flow_to(s1, start, x.end), LAMBDA s2 :
    LET entry == [op |-> "_unwarp_ifs", start |-> start, blocks |-> blocks,
                  topmost_end |-> topmost_end, end |-> x.end, pre |-> s.blk,
                  post |-> s2.blk, err |-> s2.err]
        s3 == [s2 EXCEPT !.log = Append(@, entry)]
    IN
    IF ~Ok(s3) THEN Ret(s3, blocks)
    ELSE unwarp_ifs_loop(s3, blocks, topmost_end, x.end_index,
                         Append(boundaries, <<start_index, x.end_index - 1>>))))))

_unwarp_ifs(s, blocks, top_end, topmost_end) ==
    unwarp_ifs_loop(s, blocks, topmost_end, 0, <<>>)

----------------------------------------------------------------------------
(* The passes.                                                             *)

\* step(statements.contents, **kargs)
apply_step(s, step, blocks) ==
    CASE step = "_unwarp_loops" -> _unwarp_loops(s, blocks, FALSE)
      [] step = "_unwarp_loops, repeat_until" -> _unwarp_loops(s, blocks, TRUE)
      [] step = "_unwarp_ifs" -> _unwarp_ifs(s, blocks, None, None)

\* the first for loop of _run_step over the lists gathered before it
RECURSIVE run_step_loop(_, _, _)
run_step_loop(s, step, lists) ==
    LET statements == Head(lists) IN
    IF lists = <<>> THEN s
    ELSE Bind(apply_step(s, step, BlockIds(s.lst[statements])), LAMBDA r :
    IF ~Ok(r.s) THEN r.s
    ELSE run_step_loop([r.s EXCEPT !.lst[statements] = BlockRefs(r.v)], step,
                       Tail(lists)))

\* for i, block in enumerate(statements.contents): block.index = i
RECURSIVE fix_indices(_, _, _)
fix_indices(s, blocks, i) ==
    IF ~(i < Len(blocks)) THEN s
    ELSE fix_indices([s EXCEPT !.blk[At(blocks, i)].index = i], blocks, i + 1)

\* the second for loop of _run_step over the lists gathered after the step
RECURSIVE fix_indices_loop(_, _)
fix_indices_loop(s, lists) ==
    IF lists = <<>> THEN s
    ELSE fix_indices_loop(fix_indices(s, BlockIds(s.lst[Head(lists)]), 0), Tail(lists))

_run_step(s, step) ==
    Bind(run_step_loop(s, step, _gather_statements_lists(s)), LAMBDA s1 :
    IF ~Ok(s1) THEN s1 ELSE fix_indices_loop(s1, _gather_statements_lists(s1)))

\* glue_blocks putting the statements of a block after those of its target
RECURSIVE glue_blocks_appending(_, _, _)
glue_blocks_appending(s, blocks, i) ==
    LET block == At(blocks, i)
        warp == s.blk[block].warp
        target == warp.target
    IN
    IF ~(i < Len(blocks) - 1) THEN s
    ELSE IF ~_is_flow(warp) THEN Raise(s, "AssertionError")
    ELSE IF target # At(blocks, i + 1) THEN Raise(s, "AssertionError")
    ELSE glue_blocks_appending(
             [s EXCEPT !.blk[target].contents = @ \o s.blk[block].contents,
                       !.blk[block].contents = <<>>],
             blocks, i + 1)

\* the inner for loop of _glue_flows over blocks[:-1], from position i
RECURSIVE glue_blocks(_, _, _)
glue_blocks(s, blocks, i) ==
    LET block == At(blocks, i)
        warp == s.blk[block].warp
        target == warp.target
    IN
    IF ~(i < Len(blocks) - 1) THEN s
    ELSE IF ~_is_flow(warp) THEN Raise(s, "AssertionError")
    ELSE IF target # At(blocks, i + 1) THEN Raise(s, "AssertionError")
    ELSE glue_blocks([s EXCEPT !.blk[target].contents = s.blk[block].contents \o @,
                               !.blk[block].contents = <<>>],
                     blocks, i + 1)

RECURSIVE glue_flows_loop(_, _)
glue_flows_loop(s, lists) ==
    LET statements == Head(lists)
        blocks == BlockIds(s.lst[statements])
    IN
    IF lists = <<>> THEN s
    ELSE IF s.blk[Last(blocks)].warp.k # "EndWarp" THEN Raise(s, "AssertionError")
    ELSE Bind(glue_blocks(s, blocks, 0), LAMBDA s1 :
    IF ~Ok(s1) THEN s1
    ELSE glue_flows_loop([s1 EXCEPT !.lst[statements] = <<BlockRef(Last(blocks))>>],
                         Tail(lists)))

\* _glue_flows on the root's list alone
_glue_flows_of_root(s) == glue_flows_loop(s, <<Root>>)

_glue_flows(s) == glue_flows_loop(s, _gather_statements_lists(s))

\* statements.contents = statements.contents[0].contents
RECURSIVE final_pass_loop(_, _)
final_pass_loop(s, lists) ==
    LET statements == Head(lists)
        first == s.lst[statements][1]
    IN
    IF lists = <<>> THEN s
    ELSE IF first.k # "Block" THEN Raise(s, "AttributeError")
    ELSE final_pass_loop([s EXCEPT !.lst[statements] = s.blk[first.id].contents],
                         Tail(lists))

\* final_pass on the root's list alone
final_pass_of_root(s) == final_pass_loop(s, <<Root>>)

final_pass(s) == final_pass_loop(s, _gather_statements_lists(s))

----------------------------------------------------------------------------
(* The flow graphs given to primary_pass.  A graph is the sequence of the  *)
(* root's blocks; block number b (from 1) holds index b - 1.               *)

MaxBlocks == 4

\* the condition and the statement of the block at position i
Condition(i) == BinaryOperator(T_LESS_THEN, Identifier("T_LOCAL", i), Constant(0))
Statement(i) == FunctionCall(i)

\* the warps the block at position i of n blocks may end with: the true
\* branch, a flow and a loop body fall through to the next block
WarpChoices(i, n) ==
    IF i = n - 1 THEN {EndWarp}
    ELSE {EndWarp, UnconditionalWarp("T_FLOW", i + 2)}
         \cup {UnconditionalWarp("T_JUMP", j) : j \in 1..n}
         \cup {ConditionalWarp(Condition(i), i + 2, j) : j \in (1..n) \ {i + 2}}
         \cup {NumericLoopWarp(i + 2, j) : j \in (i + 3)..n}
         \cup {IteratorWarp(i + 2, j) : j \in (i + 3)..n}

RECURSIVE WarpSequences(_, _)
WarpSequences(i, n) ==
    IF i = 0 THEN {<<>>}
    ELSE {Append(w, x) : w \in WarpSequences(i - 1, n), x \in WarpChoices(i - 1, n)}

\* the edges into block b that are not a fall through
warpins(warps, b) ==
    Cardinality({i \in 1..Len(warps) :
        \/ _is_jump(warps[i]) /\ warps[i].target = b
        \/ warps[i].k = "ConditionalWarp" /\ warps[i].false_target = b
        \/ warps[i].k \in {"NumericLoopWarp", "IteratorWarp"} /\ warps[i].way_out = b})

\* full[b]: whether block b holds a statement
Graph(warps, full) ==
    [b \in 1..Len(warps) |->
        Block(b - 1, IF full[b] THEN <<Statement(b - 1)>> ELSE <<>>, warps[b],
              warpins(warps, b))]

----------------------------------------------------------------------------
(* Flow graphs of whole functions, larger than the enumerated family.  A   *)
(* graph is written as the sequence of <<contents, warp>> of its blocks.   *)

Cond(i, false_target) == ConditionalWarp(Condition(i), i + 2, false_target)
Flow(target) == UnconditionalWarp("T_FLOW", target)
Jump(target) == UnconditionalWarp("T_JUMP", target)
Call(i) == <<Statement(i)>>
Local(i) == Identifier("T_LOCAL", i)
Not(e) == UnaryOperator("T_NOT", e)
SetSlot(e) == <<Assignment(<<Identifier("T_SLOT", 7)>>, <<e>>)>>
SetLocal(e) == <<Assignment(<<Identifier("T_LOCAL", 9)>>, <<e>>)>>

ScenarioGraph(blocks) ==
    LET warps == [b \in 1..Len(blocks) |-> blocks[b][2]] IN
    [b \in 1..Len(blocks) |-> Block(b - 1, blocks[b][1], warps[b], warpins(warps, b))]

\* if l0 < 0 then l9 = 1 else l9 = 2 end
IfElse == <<
    <<<<>>, Cond(0, 3)>>,
    <<SetLocal(Constant(1)), Jump(4)>>,
    <<SetLocal(Constant(2)), Flow(4)>>,
    <<<<>>, EndWarp>> >>

\* while l0 < 0 do f2() if l2 < 0 then break end f4() end f5()
WhileBreak == <<
    <<<<>>, Cond(0, 6)>>,
    <<<<>>, Flow(3)>>,
    <<Call(2), Cond(2, 5)>>,
    <<<<>>, Jump(6)>>,
    <<Call(4), Jump(1)>>,
    <<Call(5), EndWarp>> >>

\* the same loop, its break compiled to a conditional jump out of the loop
CondBreakOnly == <<
    <<<<>>, Cond(0, 5)>>,
    <<<<>>, Flow(3)>>,
    <<Call(2), Cond(2, 5)>>,
    <<Call(3), Jump(1)>>,
    <<Call(4), EndWarp>> >>

\* repeat f0() if l0 < 0 then break end f2() until l2 < 0
RepeatBreak == <<
    <<Call(0), Cond(0, 3)>>,
    <<<<>>, Jump(4)>>,
    <<Call(2), Cond(2, 1)>>,
    <<Call(3), EndWarp>> >>

\* for v in c do f1() if l1 < 0 then break end f3() end
IteratorBreak == <<
    <<Call(0), IteratorWarp(2, 5)>>,
    <<Call(1), Cond(1, 4)>>,
    <<<<>>, Jump(5)>>,
    <<Call(3), Jump(1)>>,
    <<Call(4), EndWarp>> >>

\* two nested while loops, each with a break
NestedWhile == <<
    <<<<>>, Cond(0, 11)>>,
    <<<<>>, Flow(3)>>,
    <<Call(2), Cond(2, 5)>>,
    <<<<>>, Jump(11)>>,
    <<<<>>, Cond(4, 10)>>,
    <<<<>>, Flow(7)>>,
    <<Call(6), Cond(6, 9)>>,
    <<<<>>, Jump(10)>>,
    <<Call(8), Jump(5)>>,
    <<Call(9), Jump(1)>>,
    <<Call(10), EndWarp>> >>

\* a loop whose conditional exit and break jump leave for the same block
SameTargets == <<
    <<<<>>, Flow(2)>>,
    <<<<>>, Cond(1, 5)>>,
    <<<<>>, Jump(5)>>,
    <<<<>>, Jump(1)>>,
    <<<<>>, EndWarp>> >>

\* a jump out of a while loop past the block that follows the loop
GotoBreak == <<
    <<<<>>, Cond(0, 6)>>,
    <<<<>>, Flow(3)>>,
    <<Call(2), Cond(2, 5)>>,
    <<<<>>, Jump(7)>>,
    <<Call(4), Jump(1)>>,
    <<Call(5), Flow(7)>>,
    <<<<>>, EndWarp>> >>

\* a loop followed by a block that jumps to itself
EndlessEnds == <<
    <<<<>>, Jump(1)>>,
    <<<<>>, Flow(3)>>,
    <<<<>>, Jump(2)>>,
    <<<<>>, Jump(1)>>,
    <<<<>>, EndWarp>> >>

\* branches that cross: the end of a branching is a block of an enclosing
\* region that is no longer in the list
GotoIf == <<
    <<Call(0), Cond(0, 5)>>,
    <<Call(1), Cond(1, 4)>>,
    <<<<>>, Cond(2, 1)>>,
    <<<<>>, Cond(3, 4)>>,
    <<<<>>, Jump(3)>>,
    <<<<>>, EndWarp>> >>

\* slot7 = l0 < 0
BoolExpr == <<
    <<<<>>, Cond(0, 3)>>,
    <<SetSlot(Primitive("T_FALSE")), Jump(4)>>,
    <<SetSlot(Primitive("T_TRUE")), Flow(4)>>,
    <<Call(3), EndWarp>> >>

\* slot7 = l0 and l1 or l2
AndOr == <<
    <<<<>>, ConditionalWarp(Local(0), 2, 3)>>,
    <<<<>>, ConditionalWarp(Not(Local(1)), 3, 4)>>,
    <<SetSlot(Local(2)), Flow(4)>>,
    <<Call(3), EndWarp>> >>

\* slot7 = l0 and (l1 or l2)
AndOfOr == <<
    <<<<>>, ConditionalWarp(Local(0), 2, 4)>>,
    <<<<>>, ConditionalWarp(Not(Local(1)), 3, 4)>>,
    <<SetSlot(Local(2)), Flow(4)>>,
    <<Call(3), EndWarp>> >>

\* slot7 = l0 or l1 and l2
OrAnd == <<
    <<<<>>, ConditionalWarp(Not(Local(0)), 2, 4)>>,
    <<<<>>, ConditionalWarp(Local(1), 3, 4)>>,
    <<SetSlot(Local(2)), Flow(4)>>,
    <<Call(3), EndWarp>> >>

\* slot7 = l0 or l1 and l2 or l3
OrAndOr == <<
    <<<<>>, ConditionalWarp(Not(Local(0)), 2, 5)>>,
    <<<<>>, ConditionalWarp(Local(1), 3, 4)>>,
    <<<<>>, ConditionalWarp(Not(Local(2)), 4, 5)>>,
    <<SetSlot(Local(3)), Flow(5)>>,
    <<Call(4), EndWarp>> >>

\* slot7 = l0 or l1 and (l2 or l3)
OrAndOfOr == <<
    <<<<>>, ConditionalWarp(Not(Local(0)), 2, 5)>>,
    <<<<>>, ConditionalWarp(Local(1), 3, 5)>>,
    <<<<>>, ConditionalWarp(Not(Local(2)), 4, 5)>>,
    <<SetSlot(Local(3)), Flow(5)>>,
    <<Call(4), EndWarp>> >>

\* if l0 < 0 then l9 = false else l8 = true end
IfElseFalseTrue == <<
    <<<<>>, Cond(0, 3)>>,
    <<SetLocal(Primitive("T_FALSE")), Jump(4)>>,
    <<<<Assignment(<<Identifier("T_LOCAL", 8)>>, <<Primitive("T_TRUE")>>)>>, Flow(4)>>,
    <<Call(3), EndWarp>> >>

Scenarios ==
    {IfElse, WhileBreak, CondBreakOnly, RepeatBreak, IteratorBreak, NestedWhile,
     SameTargets, GotoBreak, EndlessEnds, GotoIf, BoolExpr, AndOr, AndOfOr, OrAnd,
     OrAndOr, OrAndOfOr, IfElseFalseTrue}

----------------------------------------------------------------------------
(* The driver: primary_pass step by step, then final_pass or primary_pass  *)
(* once more.                                                              *)

MaxRounds == 2

State == [blk |-> blk, lst |-> lst, err |-> err, log |-> log]

Becomes(s, next) ==
    /\ blk' = s.blk
    /\ lst' = s.lst
    /\ err' = s.err
    /\ log' = s.log
    /\ pc' = IF Ok(s) THEN next ELSE "raised"

Init ==
    /\ \/ \E n \in 1..MaxBlocks : \E warps \in WarpSequences(n, n) :
              \E full \in [1..n -> BOOLEAN] : blk = Graph(warps, full)
       \/ \E blocks \in Scenarios : blk = ScenarioGraph(blocks)
    /\ lst = <<BlockRefs([b \in 1..Len(blk) |-> b])>>
    /\ err = "ok"
    /\ log = <<>>
    /\ pc = "start"
    /\ round = 0
    /\ parts = <<>>
    /\ tree = NoExpr

PrimaryPass ==
    /\ pc \in {"start", "primary_pass done"}
    /\ round < MaxRounds
    /\ round' = round + 1
    /\ pc' = "_unwarp_loops"
    /\ UNCHANGED <<blk, lst, err, log, parts, tree>>

UnwarpLoops ==
    /\ pc = "_unwarp_loops"
    /\ Becomes(_run_step(State, "_unwarp_loops"), "_unwarp_loops, repeat_until")
    /\ UNCHANGED <<round, parts, tree>>

UnwarpRepeatUntil ==
    /\ pc = "_unwarp_loops, repeat_until"
    /\ Becomes(_run_step(State, "_unwarp_loops, repeat_until"), "_unwarp_ifs")
    /\ UNCHANGED <<round, parts, tree>>

UnwarpIfs ==
    /\ pc = "_unwarp_ifs"
    /\ Becomes(_run_step(State, "_unwarp_ifs"), "_glue_flows")
    /\ UNCHANGED <<round, parts, tree>>

\* the end of primary_pass is recorded in the history
GlueFlows ==
    /\ pc = "_glue_flows"
    /\ LET s == _glue_flows(State)
           entry == [op |-> "primary_pass", round |-> round, blk |-> s.blk,
                     lst |-> s.lst, err |-> s.err,
                     pre |-> [State EXCEPT !.log = <<>>]]
       IN Becomes([s EXCEPT !.log = Append(@, entry)], "primary_pass done")
    /\ UNCHANGED <<round, parts, tree>>

FinalPass ==
    /\ pc = "primary_pass done"
    /\ LET s == final_pass(State)
           entry == [op |-> "final_pass", pre |-> State, lists |-> _gather_statements_lists(State),
                     err |-> s.err]
       IN Becomes([s EXCEPT !.log = Append(@, entry)], "final_pass done")
    /\ UNCHANGED <<round, parts, tree>>

Next ==
    \/ PrimaryPass
    \/ UnwarpLoops
    \/ UnwarpRepeatUntil
    \/ UnwarpIfs
    \/ GlueFlows
    \/ FinalPass

Spec == Init /\ [][Next]_vars

----------------------------------------------------------------------------
(* The lists given to _glue_flows: the lists primary_pass has reduced, and *)
(* lists of blocks drawn with any unconditional warps, which _glue_flows   *)
(* is to refuse.                                                           *)

MaxGlued == 3

InitGlueFlows ==
    \/ Init
    \/ /\ \E n \in 1..MaxGlued :
             \E warps \in [1..n -> {EndWarp} \cup
                               {UnconditionalWarp(type, target) :
                                   type \in {"T_FLOW", "T_JUMP"}, target \in 1..n}] :
             \E full \in [1..n -> BOOLEAN] :
                blk = [b \in 1..n |->
                          Block(b - 1, IF full[b] THEN Call(b) ELSE <<>>, warps[b], 0)]
       /\ lst = <<BlockRefs([b \in 1..Len(blk) |-> b])>>
       /\ err = "ok"
       /\ log = <<>>
       /\ pc = "_glue_flows"
       /\ round = 1
       /\ parts = <<>>
       /\ tree = NoExpr

SpecGlueFlows == InitGlueFlows /\ [][Next]_vars

----------------------------------------------------------------------------
(* The removal of the blocks _unwarp_ifs has consumed: the list of blocks  *)
(* and the boundaries (start_index, end_index - 1) of the regions.         *)

MaxRemoved == 5
MaxBoundaries == 2

\* lst holds the blocks, parts the boundaries: ranges (start, end) with
\* start <= end, in ascending order and not overlapping
InitRemoveProcessed ==
    /\ \E n \in 1..MaxRemoved :
          /\ blk = [b \in 1..n |-> Block(b - 1, Call(b), EndWarp, 0)]
          /\ \E k \in 0..MaxBoundaries :
                \E boundaries \in [1..k -> (0..(n - 1)) \X (0..(n - 1))] :
                   /\ \A i \in 1..k : boundaries[i][1] <= boundaries[i][2]
                   /\ \A i \in 1..(k - 1) : boundaries[i][2] < boundaries[i + 1][1]
                   /\ parts = boundaries
    /\ lst = <<BlockRefs([b \in 1..Len(blk) |-> b])>>
    /\ err = "ok"
    /\ log = <<>>
    /\ pc = "_unwarp_ifs"
    /\ round = 0
    /\ tree = NoExpr

\* return _remove_processed_blocks(blocks, boundaries); the blocks given are
\* recorded in the history
RemoveProcessedBlocks ==
    /\ pc = "_unwarp_ifs"
    /\ lst' = <<_remove_processed_blocks(lst[Root], parts)>>
    /\ log' = Append(log, [op |-> "_remove_processed_blocks", blocks |-> lst[Root],
                            boundaries |-> parts])
    /\ pc' = "_remove_processed_blocks done"
    /\ UNCHANGED <<blk, err, round, parts, tree>>

SpecRemoveProcessed == InitRemoveProcessed /\ [][RemoveProcessedBlocks]_vars

----------------------------------------------------------------------------
(* The assembly of an expression from the parts _unwarp_expression hands   *)
(* to _compile_expression: operands and operators in turn, an operand      *)
(* being a node or a list of parts already grouped.                        *)

MaxOperators == 4

LogicalOperators == {T_LOGICAL_AND, T_LOGICAL_OR}

\* [l0, ops[1], l1, ops[2], ...]
FlatParts(ops) ==
    [p \in 1..(2 * Len(ops) + 1) |->
        IF p % 2 = 1 THEN Local((p - 1) \div 2) ELSE Operator(ops[p \div 2])]

\* the parts with the operands i..j grouped into a list of their own
Grouped(flat, i, j) ==
    Upto(flat, 2 * i) \o <<PartList(Slice(flat, 2 * i, 2 * j + 1))>>
        \o From(flat, 2 * j + 1)

InitAssembly ==
    /\ blk = <<>>
    /\ lst = <<>>
    /\ err = "ok"
    /\ log = <<>>
    /\ pc = "_unwarp_expression done"
    /\ round = 0
    /\ \E n \in 1..MaxOperators : \E ops \in [1..n -> LogicalOperators] :
          \E i \in 0..n : \E j \in (i + 1)..n :
             parts \in {FlatParts(ops)}
                          \cup (IF j - i < n THEN {Grouped(FlatParts(ops), i, j)} ELSE {})
    /\ tree = NoExpr

\* explicit_parts = _make_explicit_subexpressions(parts); the parts given
\* are recorded in the history
MakeExplicitSubexpressions ==
    /\ pc = "_unwarp_expression done"
    /\ parts' = _make_explicit_subexpressions(parts)
    /\ log' = Append(log, [op |-> "_make_explicit_subexpressions", parts |-> parts])
    /\ pc' = "_make_explicit_subexpressions done"
    /\ UNCHANGED <<blk, lst, err, round, tree>>

\* return _assemble_expression(explicit_parts)
AssembleExpression ==
    /\ pc = "_make_explicit_subexpressions done"
    /\ LET node == _assemble_expression(PartList(parts)) IN
       /\ tree' = node.v
       /\ err' = node.err
       /\ pc' = IF node.err = "ok" THEN "_assemble_expression done" ELSE "raised"
    /\ UNCHANGED <<blk, lst, log, round, parts>>

NextAssembly ==
    \/ MakeExplicitSubexpressions
    \/ AssembleExpression

SpecAssembly == InitAssembly /\ [][NextAssembly]_vars

----------------------------------------------------------------------------
(* The inversion of a condition: _invert applied to an expression, and     *)
(* once more to what it returned.                                          *)

MaxInversions == 2

ComparisonTypes ==
    {T_LESS_THEN, T_GREATER_THEN, T_LESS_OR_EQUAL, T_GREATER_OR_EQUAL,
     T_NOT_EQUAL, T_EQUAL}

\* the expressions given to _invert: operands, comparisons, arithmetic, and
\* the unary operators over operands and over comparisons of the locals
Expressions ==
    LET Operands == {Local(0), Local(1), Constant(1), Primitive("T_NIL")}
        Comparisons ==
            {BinaryOperator(t, a, b) : t \in ComparisonTypes, a \in Operands, b \in Operands}
        inner == Operands \cup {BinaryOperator(t, Local(0), Local(1)) : t \in ComparisonTypes}
    IN  Operands \cup Comparisons
        \cup {BinaryOperator(T_ADD, a, b) : a \in Operands, b \in Operands}
        \cup {UnaryOperator(t, x) : t \in {"T_NOT", "T_LENGTH_OPERATOR", "T_MINUS"},
                                    x \in inner}

\* parts is the history of the expressions given to _invert, tree the
\* expression to invert next
InitInvert ==
    /\ blk = <<>>
    /\ lst = <<>>
    /\ err = "ok"
    /\ log = <<>>
    /\ pc = "_invert"
    /\ round = 0
    /\ parts = <<>>
    /\ tree \in Expressions

\* tree = _invert(tree)
Invert ==
    /\ pc = "_invert"
    /\ Len(parts) < MaxInversions
    /\ LET node == _invert(tree) IN
       /\ tree' = node.v
       /\ err' = node.err
       /\ pc' = IF node.err = "ok" THEN "_invert" ELSE "raised"
    /\ parts' = Append(parts, tree)
    /\ UNCHANGED <<blk, lst, log, round>>

SpecInvert == InitInvert /\ [][Invert]_vars

----------------------------------------------------------------------------
(* The properties of the passes.                                           *)

\* the statements-lists primary_pass and final_pass go through
Lists == _gather_statements_lists(State)

\* the entries of the history made by an operation
Entries(op) == {k \in 1..Len(log) : log[k].op = op}

\* C1: whenever primary_pass returns normally, every non-empty statements-list
\* under the root holds exactly one block, and the warp of that block is EndWarp
PrimaryPassLeavesOneEndBlock ==
    pc = "primary_pass done" =>
        \A k \in 1..Len(Lists) :
            LET contents == lst[Lists[k]] IN
            /\ Len(contents) = 1
            /\ contents[1].k = "Block"
            /\ blk[contents[1].id].warp = EndWarp

\* primary_pass has returned from a function with loops or branches in it
PrimaryPassReducedNestedLists ==
    /\ pc = "primary_pass done"
    /\ round = 1
    /\ Len(Lists) >= 4
    /\ \E k \in 1..Len(Lists) : Len(blk[lst[Lists[k]][1].id].contents) >= 3

\* C2: after final_pass on what primary_pass produced no statements-list holds
\* a block: each list holds what its single block held, in the same order
FinalPassLeavesStatements ==
    pc = "final_pass done" =>
        LET e == log[Len(log)] IN
        /\ e.op = "final_pass"
        /\ \A k \in 1..Len(e.lists) :
              LET l == e.lists[k] IN
              /\ Len(e.pre.lst[l]) = 1
              /\ lst[l] = e.pre.blk[e.pre.lst[l][1].id].contents
        /\ \A k \in 1..Len(Lists) :
              \A i \in 1..Len(lst[Lists[k]]) : lst[Lists[k]][i].k # "Block"

\* final_pass has run on nested lists, one of them with several statements
FinalPassFlattenedNestedLists ==
    /\ pc = "final_pass done"
    /\ Len(Lists) >= 4
    /\ \E k \in 1..Len(Lists) : Len(lst[Lists[k]]) >= 3

\* the history's entry of the first primary_pass
FirstPass == log[CHOOSE k \in Entries("primary_pass") : log[k].round = 1]

\* C3: primary_pass on what primary_pass has produced raises nothing and leaves
\* every statements-list as it was: the same single block with the same
\* contents and the same End warp
PrimaryPassIdempotent ==
    (round = 2 /\ pc # "final_pass done") =>
        /\ err = "ok"
        /\ lst = FirstPass.lst
        /\ \A k \in 1..Len(Lists) :
              LET block == lst[Lists[k]][1].id IN
              /\ blk[block].contents = FirstPass.blk[block].contents
              /\ blk[block].warp = FirstPass.blk[block].warp
              /\ blk[block].warp = EndWarp

\* primary_pass has returned a second time from a function with nested lists
PrimaryPassRanTwice ==
    /\ round = 2
    /\ pc = "primary_pass done"
    /\ Len(Lists) >= 4

\* C4: after each _run_step and after _glue_flows every block at position i of
\* a statements-list has index i
IndexIsPosition ==
    (err = "ok" /\ pc \in {"_unwarp_loops, repeat_until", "_unwarp_ifs", "_glue_flows",
                           "primary_pass done"}) =>
        \A k \in 1..Len(Lists) :
            \A i \in 0..(Len(lst[Lists[k]]) - 1) :
                blk[At(lst[Lists[k]], i).id].index = i

\* the part of C4 about _run_step alone
IndexIsPositionAfterRunStep ==
    (err = "ok" /\ pc \in {"_unwarp_loops, repeat_until", "_unwarp_ifs", "_glue_flows"}) =>
        \A k \in 1..Len(Lists) :
            \A i \in 0..(Len(lst[Lists[k]]) - 1) :
                blk[At(lst[Lists[k]], i).id].index = i

\* the blocks a call of the history names
LogBlocks(e) == {e.start} \cup Range(e.blocks)

\* C5: from lists in which every conditional warp has two different targets,
\* loop reduction and break propagation never produce a block whose
\* conditional warp has true_target = false_target
NoConditionalWarpWithEqualTargets ==
    \A b \in 1..Len(blk) :
        blk[b].warp.k = "ConditionalWarp" =>
            blk[b].warp.true_target # blk[b].warp.false_target

\* C6: on a normal return of _unwarp_breaks every body block whose conditional
\* warp left the loop (its false_target neither the header nor a body block)
\* points at a body block that holds a Break
EscapingConditionalsBoundToBreaks ==
    \A k \in Entries("_unwarp_breaks") :
        LET e == log[k] IN
        e.err = "ok" =>
            \A i \in 1..Len(e.blocks) :
                LET b == e.blocks[i] IN
                (/\ e.pre[b].warp.k = "ConditionalWarp"
                 /\ e.pre[b].warp.false_target \notin LogBlocks(e)) =>
                    /\ e.post[b].warp.k = "ConditionalWarp"
                    /\ e.post[b].warp.false_target \in Range(e.patched)
                    /\ \E j \in 1..Len(e.post[e.post[b].warp.false_target].contents) :
                          e.post[e.post[b].warp.false_target].contents[j] = Break

\* the regions _unwarp_ifs met whose branching end is a goto: neither a block
\* of the list nor topmost_end
GotoRegions ==
    {k \in Entries("_unwarp_ifs") :
        /\ log[k].end \notin Range(log[k].blocks)
        /\ log[k].end # log[k].topmost_end}

\* C7: when the branching end of a region of _unwarp_ifs is neither a block of
\* the list nor topmost_end, the call raises the GOTO error and leaves the
\* region as it was
UnwarpIfsRejectsGoto ==
    \A k \in GotoRegions :
        /\ log[k].err = "NotImplementedError: GOTO statements are not supported"
        /\ log[k].post = log[k].pre

\* _unwarp_ifs has met a region whose branching end is outside the list
UnwarpIfsMetGoto ==
    /\ GotoRegions # {}
    /\ pc = "raised"

\* the statements-lists under a node that are not inside a loop node
RECURSIVE outside_loops_list(_, _), outside_loops_seq(_, _), outside_loops_node(_, _)
outside_loops_list(s, l) == <<l>> \o outside_loops_seq(s, s.lst[l])
outside_loops_seq(s, nodes) ==
    IF nodes = <<>> THEN <<>>
    ELSE outside_loops_node(s, Head(nodes)) \o outside_loops_seq(s, Tail(nodes))
outside_loops_node(s, n) ==
    CASE n.k = "Block" -> outside_loops_seq(s, s.blk[n.id].contents)
      [] n.k = "If" -> outside_loops_list(s, n.then_block)
                       \o outside_loops_list(s, n.else_block)
      [] OTHER -> <<>>

\* the statements of the blocks of a statements-list
StatementsOf(l) ==
    UNION {Range(blk[lst[l][i].id].contents) : i \in 1..Len(lst[l])}

\* C8: after primary_pass no Break is in a statements-list that is not nested
\* inside a While, RepeatUntil, NumericFor or IteratorFor node
BreaksAreInsideLoops ==
    pc = "primary_pass done" =>
        \A l \in Range(outside_loops_list(State, Root)) : Break \notin StatementsOf(l)

\* primary_pass has returned with a Break in the statements of a loop
PrimaryPassLeftBreakInLoop ==
    /\ pc = "primary_pass done"
    /\ \E l \in Range(Lists) : Break \in StatementsOf(l)

\* the statements of the blocks ids of an arena of blocks, in their order
RECURSIVE ContentsOf(_, _)
ContentsOf(blocks, ids) ==
    IF ids = <<>> THEN <<>>
    ELSE blocks[Head(ids)].contents \o ContentsOf(blocks, Tail(ids))

\* every block of the list but the last flows into the next one, and the
\* last one ends the list
FlowsInOrder(blocks, ids) ==
    /\ blocks[Last(ids)].warp.k = "EndWarp"
    /\ \A i \in 1..(Len(ids) - 1) :
          _is_flow(blocks[ids[i]].warp) /\ blocks[ids[i]].warp.target = ids[i + 1]

\* the statements-lists _glue_flows was given by the entry e of the history
GluedLists(e) == Range(_gather_statements_lists(e.pre))

\* C13: _glue_flows leaves in every statements-list its last block alone,
\* holding the statements of all the blocks of the list in their order, the
\* other blocks emptied; it fails when a list is not a chain of Flow warps
\* closed by an EndWarp, and only then
GlueFlowsKeepsStatements ==
    \A n \in DOMAIN log : log[n].op = "primary_pass" =>
        LET e == log[n] IN
        /\ e.err = "ok" <=>
              \A l \in GluedLists(e) :
                 FlowsInOrder(e.pre.blk, BlockIds(e.pre.lst[l]))
        /\ e.err = "ok" =>
              \A l \in GluedLists(e) :
                 LET ids == BlockIds(e.pre.lst[l]) IN
                 /\ e.lst[l] = <<BlockRef(Last(ids))>>
                 /\ e.blk[Last(ids)].contents = ContentsOf(e.pre.blk, ids)
                 /\ \A i \in 1..(Len(ids) - 1) : e.blk[ids[i]].contents = <<>>

\* _glue_flows has glued a list of several blocks, two of them with statements
GlueFlowsGluedStatements ==
    \E n \in DOMAIN log :
        /\ log[n].op = "primary_pass" /\ log[n].err = "ok"
        /\ \E l \in GluedLists(log[n]) :
              LET ids == BlockIds(log[n].pre.lst[l]) IN
              \E i, j \in 1..Len(ids) :
                 /\ i < j
                 /\ log[n].pre.blk[ids[i]].contents # <<>>
                 /\ log[n].pre.blk[ids[j]].contents # <<>>

\* _glue_flows has failed
GlueFlowsFailed ==
    \E n \in DOMAIN log : log[n].op = "primary_pass" /\ log[n].err # "ok"

\* the body _unwarp_ifs hands to _find_expressions for the region of the
\* entry e of the history: the blocks between start and end
RegionBody(e) ==
    LET start_index == IndexOf(e.blocks, e.start)
        end_index == IF e.end \in Range(e.blocks) THEN IndexOf(e.blocks, e.end)
                     ELSE Len(e.blocks)
    IN Slice(e.blocks, start_index + 1, end_index)

\* _find_expressions(start, body, end) on the region of the entry e, over
\* the blocks as they were when _unwarp_ifs met the region
FoundExpressions(e) ==
    _find_expressions([blk |-> e.pre, lst |-> <<>>, err |-> "ok", log |-> <<>>],
                      e.start, RegionBody(e), e.end)

\* the block holds one Assignment to one Identifier and has no ConditionalWarp
AssignsOneSlot(block) ==
    /\ Len(block.contents) = 1
    /\ block.contents[1].k = "Assignment"
    /\ Len(block.contents[1].destinations) = 1
    /\ block.contents[1].destinations[1].k = "Identifier"
    /\ block.warp.k # "ConditionalWarp"

\* the regions of _unwarp_ifs that _find_expressions recognised
RecognisedRegions ==
    {k \in Entries("_unwarp_ifs") \ GotoRegions :
        FoundExpressions(log[k]).err = "ok" /\ Len(FoundExpressions(log[k]).v) > 0}

\* C15 as stated: in a region _find_expressions recognises, every non-empty
\* block of the body holds exactly one Assignment to one Identifier, has no
\* ConditionalWarp, and all these blocks assign the same slot
RecognisedBodyAssignsOneSlot ==
    \A k \in RecognisedRegions :
        LET full == {b \in Range(RegionBody(log[k])) : log[k].pre[b].contents # <<>>} IN
        /\ \A b \in full : AssignsOneSlot(log[k].pre[b])
        /\ \A b, c \in full :
              log[k].pre[b].contents[1].destinations[1].slot
                 = log[k].pre[c].contents[1].destinations[1].slot

\* the positions (from 0) of the blocks of the body of the entry e of
\* _unwarp_breaks that leave the loop by an unconditional warp
BreakingPositions(e) ==
    {i \in 0..(Len(e.blocks) - 1) :
        /\ e.pre[At(e.blocks, i)].warp.k = "UnconditionalWarp"
        /\ e.pre[At(e.blocks, i)].warp.target \notin {e.start} \cup Range(e.blocks)}

\* the block after the block b in the body as patched, None after the last
NextPatched(e, b) ==
    IF IndexOf(e.patched, b) + 1 < Len(e.patched)
    THEN At(e.patched, IndexOf(e.patched, b) + 1) ELSE None

\* the block that received the Break of the block at position i: the block
\* itself when nothing warps into it, the fresh block after it otherwise
BreakHolder(e, i) ==
    IF e.pre[At(e.blocks, i)].warpins_count = 0 THEN At(e.blocks, i)
    ELSE NextPatched(e, At(e.blocks, i))

\* C16: in _unwarp_breaks a block of the body that leaves the loop by an
\* unconditional warp gets the Break appended when nothing warps into it;
\* otherwise a fresh block follows it in the body, the block keeps its
\* contents and flows into the fresh block, which holds the Break alone.
\* The block holding the Break ends the body when the original block was
\* its last one and flows into the original next block otherwise
BreaksAreMarked ==
    \A k \in Entries("_unwarp_breaks") : log[k].err = "ok" =>
        LET e == log[k] IN
        \A i \in BreakingPositions(e) :
            LET block == At(e.blocks, i)
                holder == BreakHolder(e, i)
            IN
            /\ e.pre[block].warpins_count = 0 =>
                  e.post[block].contents = Append(e.pre[block].contents, Break)
            /\ e.pre[block].warpins_count # 0 =>
                  /\ holder \in (Len(e.pre) + 1)..Len(e.post)
                  /\ e.post[block].contents = e.pre[block].contents
                  /\ e.post[block].warp = UnconditionalWarp("T_FLOW", holder)
                  /\ e.post[holder].contents = <<Break>>
            /\ e.post[holder].warp =
                  IF i + 1 = Len(e.blocks) THEN EndWarp
                  ELSE UnconditionalWarp("T_FLOW", At(e.blocks, i + 1))
            /\ NextPatched(e, holder) =
                  (IF i + 1 = Len(e.blocks) THEN None ELSE At(e.blocks, i + 1))
            /\ Last(e.post[holder].contents) = Break

\* _unwarp_breaks has marked a break on the block itself
BreakMarkedOnBlock ==
    \E k \in Entries("_unwarp_breaks") :
        /\ log[k].err = "ok"
        /\ \E i \in BreakingPositions(log[k]) :
              log[k].pre[At(log[k].blocks, i)].warpins_count = 0

\* _unwarp_breaks has marked a break on a fresh block, the break leaving from
\* within the body
BreakMarkedOnFreshBlock ==
    \E k \in Entries("_unwarp_breaks") :
        /\ log[k].err = "ok"
        /\ \E i \in BreakingPositions(log[k]) :
              /\ log[k].pre[At(log[k].blocks, i)].warpins_count # 0
              /\ i + 1 < Len(log[k].blocks)

\* C17 as stated: _gather_possible_ends terminates on every graph, so that
\* loop reduction finishes or fails: no step is left running forever
GatherPossibleEndsTerminates == err # "Hang"

----------------------------------------------------------------------------
(* The properties of the assembly of expressions.                          *)

And(left, right) == BinaryOperator(T_LOGICAL_AND, left, right)
Or(left, right) == BinaryOperator(T_LOGICAL_OR, left, right)

\* the parts given to _make_explicit_subexpressions, once assembled
Assembled == IF pc = "_assemble_expression done" THEN log[1].parts ELSE <<>>

AndOrParts == FlatParts(<<T_LOGICAL_AND, T_LOGICAL_OR>>)
OrAndParts == FlatParts(<<T_LOGICAL_OR, T_LOGICAL_AND>>)
OrAndOrParts == FlatParts(<<T_LOGICAL_OR, T_LOGICAL_AND, T_LOGICAL_OR>>)

RECURSIVE InOrder(_)
InOrder(node) ==
    IF node.k = "BinaryOperator"
    THEN InOrder(node.left) \o <<Operator(node.type)>> \o InOrder(node.right)
    ELSE <<node>>

\* operands and operators in turn, no operand a list of parts
IsFlat(parts_) == \A p \in DOMAIN parts_ : parts_[p].k # "list"

\* C18: the tree assembled from a flat sequence of operands and logical
\* operators reads, in order, as the sequence: no operand or operator is
\* dropped, duplicated or moved, and the assembly of a flat sequence does
\* not fail
AssemblyKeepsOrder ==
    /\ pc = "_assemble_expression done" /\ IsFlat(log[1].parts) =>
          InOrder(tree) = log[1].parts
    /\ pc = "raised" => ~IsFlat(log[1].parts)

\* a flat sequence with a sub-expression to open has been assembled
FlatSequenceAssembled ==
    /\ pc = "_assemble_expression done"
    /\ IsFlat(log[1].parts)
    /\ Len(log[1].parts) >= 7
    /\ \E p \in DOMAIN parts : parts[p].k = "list"

----------------------------------------------------------------------------
(* The properties of the inversion of conditions.                          *)

\* what _invert returned for parts[1], the expression first given to it
FirstResult == IF Len(parts) = 1 THEN tree ELSE parts[2]

\* the table of the negated comparisons
Negated ==
    {<<T_LESS_THEN, T_GREATER_OR_EQUAL>>, <<T_GREATER_THEN, T_LESS_OR_EQUAL>>,
     <<T_LESS_OR_EQUAL, T_GREATER_THEN>>, <<T_GREATER_OR_EQUAL, T_LESS_THEN>>,
     <<T_EQUAL, T_NOT_EQUAL>>, <<T_NOT_EQUAL, T_EQUAL>>}

IsComparison(e) == e.k = "BinaryOperator" /\ e.type \in ComparisonTypes
IsOperator(e) == e.k \in {"BinaryOperator", "UnaryOperator"}

\* C11: _invert of a comparison is the comparison of the same operands with
\* the operator negated by the table, and never fails; _invert of Not(x) is
\* x; _invert applied twice to a comparison or to an expression that is not
\* an operator gives the expression back
InvertNegatesComparisons ==
    /\ Len(parts) >= 1 /\ IsComparison(parts[1]) =>
          /\ err = "ok"
          /\ FirstResult.k = "BinaryOperator"
          /\ <<parts[1].type, FirstResult.type>> \in Negated
          /\ FirstResult.left = parts[1].left
          /\ FirstResult.right = parts[1].right
    /\ Len(parts) >= 1 /\ parts[1].k = "UnaryOperator" /\ parts[1].type = "T_NOT" =>
          FirstResult = parts[1].operand
    /\ Len(parts) = 2 /\ (IsComparison(parts[1]) \/ ~IsOperator(parts[1])) =>
          err = "ok" /\ tree = parts[1]

\* a comparison has been inverted twice
ComparisonInvertedTwice ==
    Len(parts) = 2 /\ IsComparison(parts[1]) /\ IsComparison(parts[2]) /\ err = "ok"

\* C12 as stated: _invert of an expression that is neither Not(x) nor a
\* comparison returns Not of that expression, and does not fail
InvertWrapsEverythingElse ==
    Len(parts) >= 1 /\ ~IsComparison(parts[1])
        /\ ~(parts[1].k = "UnaryOperator" /\ parts[1].type = "T_NOT") =>
            err = "ok" /\ FirstResult = Not(parts[1])

----------------------------------------------------------------------------
(* The properties of the removal of processed blocks.                      *)

\* the blocks of the sequence outside the positions start + 1 .. end (from 0)
\* of every range
RECURSIVE Unconsumed(_, _, _)
Unconsumed(blocks, boundaries, i) ==
    IF i >= Len(blocks) THEN <<>>
    ELSE (IF \E k \in DOMAIN boundaries : boundaries[k][1] < i /\ i <= boundaries[k][2]
          THEN <<>> ELSE <<At(blocks, i)>>)
         \o Unconsumed(blocks, boundaries, i + 1)

\* C14 as stated: _remove_processed_blocks returns, in their order, the head
\* block of every range and the blocks outside all ranges, a range with
\* start = end included
RemoveProcessedKeepsHeads ==
    pc = "_remove_processed_blocks done" =>
        lst[Root] = Unconsumed(log[1].blocks, log[1].boundaries, 0)

====
